---- MODULE Spec2Model ----
(***************************************************************************)
(* A model of go-defaultz: the defaulter registry (Register, priority      *)
(* ordering), the type-definition cycle detector, the tag extractor, the   *)
(* bundled defaulters and the recursive walk DoApplyDefaults over a record *)
(* held in a heap of cells.                                                *)
(*                                                                         *)
(* Text is a sequence of one-character strings, so that splitting,         *)
(* trimming and parsing are computed and not assumed.                      *)
(***************************************************************************)
EXTENDS Integers, Sequences, FiniteSets, TLC

VARIABLES
    defaulters,       \* defaulterRegistry.defaulters: kind -> sequence of DefaulterWithPriority
    extractor,        \* defaulterRegistry.extractor
    ignoreCannotSet,  \* defaulterRegistry.ignoreCannotSet
    heap,             \* the cells pointers refer to; address 0 is nil
    arg,              \* the interface value handed to ApplyDefaults
    err,              \* what the last ApplyDefaults call returned
    log,              \* what the last ApplyDefaults call did, in order
    pre,              \* the heap as it was when the last call began
    prev,             \* outcome of the call before the last one, when both ran back to back
    calls,            \* ApplyDefaults calls made in succession on this record and registry
    registered,       \* Register calls made after construction
    given,            \* what an extractor or defaulter called on its own was handed
    answer,           \* what it answered
    running,          \* the ApplyDefaults calls under way side by side, each on its own record
    types             \* the types the program declares, by name; no operation changes them

vars ==
    <<defaulters, extractor, ignoreCannotSet, heap, arg, err, log, pre, prev, calls, registered,
      given, answer, running, types>>

-----------------------------------------------------------------------------
(* Bounds *)

\* Register calls made after NewDefaulterRegistry returned.
MaxRegister == 2

-----------------------------------------------------------------------------
(* Text *)

Digits == {"0", "1", "2", "3", "4", "5", "6", "7", "8", "9"}

DigitVal(c) ==
    CASE c = "0" -> 0 [] c = "1" -> 1 [] c = "2" -> 2 [] c = "3" -> 3 [] c = "4" -> 4
      [] c = "5" -> 5 [] c = "6" -> 6 [] c = "7" -> 7 [] c = "8" -> 8 [] c = "9" -> 9

IsSpace(c) == c \in {" ", "\t", "\n", "\r"}

HasPrefix(s, p) == Len(p) <= Len(s) /\ SubSeq(s, 1, Len(p)) = p

TrimPrefix(s, p) == IF HasPrefix(s, p) THEN SubSeq(s, Len(p) + 1, Len(s)) ELSE s

RECURSIVE TrimLeft(_)
TrimLeft(s) == IF s # <<>> /\ IsSpace(Head(s)) THEN TrimLeft(Tail(s)) ELSE s

RECURSIVE TrimRight(_)
TrimRight(s) ==
    IF s # <<>> /\ IsSpace(s[Len(s)]) THEN TrimRight(SubSeq(s, 1, Len(s) - 1)) ELSE s

TrimSpace(s) == TrimRight(TrimLeft(s))

\* strings.Split(s, sep): every piece between occurrences of sep; with an
\* empty sep, one piece per character.
RECURSIVE SplitFrom(_, _, _)
SplitFrom(s, sep, cur) ==
    IF s = <<>> THEN <<cur>>
    ELSE IF HasPrefix(s, sep)
         THEN <<cur>> \o SplitFrom(SubSeq(s, Len(sep) + 1, Len(s)), sep, <<>>)
         ELSE SplitFrom(Tail(s), sep, Append(cur, Head(s)))

Split(s, sep) ==
    IF sep = <<>> THEN [i \in 1..Len(s) |-> <<s[i]>>] ELSE SplitFrom(s, sep, <<>>)

\* strings.SplitN(s, sep, 2): cut at the first occurrence of sep only.
RECURSIVE Cut2(_, _, _)
Cut2(s, sep, cur) ==
    IF s = <<>> THEN <<cur>>
    ELSE IF HasPrefix(s, sep) THEN <<cur, SubSeq(s, Len(sep) + 1, Len(s))>>
         ELSE Cut2(Tail(s), sep, Append(cur, Head(s)))

\* strings.Fields(s): the maximal runs of non-space characters.
RECURSIVE FieldsFrom(_, _)
FieldsFrom(s, cur) ==
    IF s = <<>> THEN (IF cur = <<>> THEN <<>> ELSE <<cur>>)
    ELSE IF IsSpace(Head(s))
         THEN (IF cur = <<>> THEN <<>> ELSE <<cur>>) \o FieldsFrom(Tail(s), <<>>)
         ELSE FieldsFrom(Tail(s), Append(cur, Head(s)))

Fields(s) == FieldsFrom(s, <<>>)

-----------------------------------------------------------------------------
(* Number parsing *)

Pow2(n) == 2 ^ n

\* Numbers are kept within 31 bits: int and int64 and their unsigned forms
\* are range-checked against 31 bits, the 8- and 16-bit kinds against their
\* own width. The 32-bit kinds are read in two halves of 16 bits and
\* range-checked against 32 bits.
EffBits(bitSize) == IF bitSize = 0 \/ bitSize > 16 THEN 31 ELSE bitSize

\* Leading digits of s as a number, with the count of digits read; "big" is
\* set once the number left the representable range.
RECURSIVE ReadDigits(_, _, _, _)
ReadDigits(s, acc, n, big) ==
    IF s # <<>> /\ Head(s) \in Digits
    THEN LET d == DigitVal(Head(s))
             over == big \/ acc > (Pow2(30) - 1) \div 10
         IN  ReadDigits(Tail(s), IF over THEN acc ELSE acc * 10 + d, n + 1, over)
    ELSE [val |-> acc, n |-> n, big |-> big, rest |-> s]

\* Leading digits of s as a number in two halves, hi * 2^16 + lo; "big" is
\* set once the number left the range kept (36 bits).
RECURSIVE ReadWide(_, _, _, _)
ReadWide(s, hi, lo, big) ==
    IF s = <<>> \/ Head(s) \notin Digits THEN [hi |-> hi, lo |-> lo, big |-> big]
    ELSE IF big \/ hi * 10 + (lo * 10 + DigitVal(Head(s))) \div Pow2(16) >= Pow2(20)
    THEN ReadWide(Tail(s), hi, lo, TRUE)
    ELSE ReadWide(Tail(s), hi * 10 + (lo * 10 + DigitVal(Head(s))) \div Pow2(16),
                  (lo * 10 + DigitVal(Head(s))) % Pow2(16), FALSE)

\* strconv.ParseInt(s, 10, 32)
ParseInt32(s) ==
    LET neg == s # <<>> /\ Head(s) = "-"
        body == IF s # <<>> /\ Head(s) \in {"+", "-"} THEN Tail(s) ELSE s
        w == ReadWide(body, 0, 0, FALSE)
    IN  IF body = <<>> \/ ReadDigits(body, 0, 0, FALSE).rest # <<>>
        THEN [ok |-> FALSE, val |-> 0, why |-> "invalid syntax"]
        ELSE IF \/ w.big
                \/ neg /\ (w.hi > Pow2(15) \/ (w.hi = Pow2(15) /\ w.lo > 0))
                \/ ~neg /\ w.hi > Pow2(15) - 1
             THEN [ok |-> FALSE, val |-> 0, why |-> "value out of range"]
             ELSE [ok |-> TRUE,
                   val |-> IF neg THEN (0 - w.hi) * Pow2(16) - w.lo ELSE w.hi * Pow2(16) + w.lo,
                   why |-> ""]

\* strconv.ParseUint(s, 10, 32); a value from 2^31 on is within the range
\* of the kind and beyond the numbers kept here.
ParseUint32(s) ==
    LET w == ReadWide(s, 0, 0, FALSE)
    IN  IF s = <<>> \/ ReadDigits(s, 0, 0, FALSE).rest # <<>>
        THEN [ok |-> FALSE, val |-> 0, why |-> "invalid syntax"]
        ELSE IF w.big \/ w.hi > Pow2(16) - 1
             THEN [ok |-> FALSE, val |-> 0, why |-> "value out of range"]
             ELSE [ok |-> TRUE, val |-> w.hi * Pow2(16) + w.lo, why |-> ""]

\* strconv.ParseInt(s, 10, bitSize)
ParseInt(s, bitSize) ==
    LET neg == s # <<>> /\ Head(s) = "-"
        body == IF s # <<>> /\ Head(s) \in {"+", "-"} THEN Tail(s) ELSE s
        r == ReadDigits(body, 0, 0, FALSE)
        lim == Pow2(EffBits(bitSize) - 1)
    IN  IF bitSize = 32 THEN ParseInt32(s)
        ELSE IF body = <<>> \/ r.rest # <<>> THEN [ok |-> FALSE, val |-> 0, why |-> "invalid syntax"]
        ELSE IF r.big \/ (neg /\ r.val > lim) \/ (~neg /\ r.val > lim - 1)
             THEN [ok |-> FALSE, val |-> 0, why |-> "value out of range"]
             ELSE [ok |-> TRUE, val |-> IF neg THEN 0 - r.val ELSE r.val, why |-> ""]

\* strconv.ParseUint(s, 10, bitSize): no sign is accepted.
ParseUint(s, bitSize) ==
    LET r == ReadDigits(s, 0, 0, FALSE)
        lim == Pow2(IF EffBits(bitSize) = 31 THEN 30 ELSE bitSize)
    IN  IF bitSize = 32 THEN ParseUint32(s)
        ELSE IF s = <<>> \/ r.rest # <<>> THEN [ok |-> FALSE, val |-> 0, why |-> "invalid syntax"]
        ELSE IF r.big \/ r.val > lim - 1
             THEN [ok |-> FALSE, val |-> 0, why |-> "value out of range"]
             ELSE [ok |-> TRUE, val |-> r.val, why |-> ""]

\* The units of time.ParseDuration whose nanosecond count fits the numbers
\* kept here ("m" and "h" do not).
UnitNanos(u) ==
    CASE u = <<"n", "s">> -> 1
      [] u = <<"u", "s">> -> 1000
      [] u = <<"m", "s">> -> 1000000
      [] u = <<"s">> -> 1000000000
      [] OTHER -> 0

RECURSIVE ReadUnit(_, _)
ReadUnit(s, cur) ==
    IF s = <<>> \/ Head(s) = "." \/ Head(s) \in Digits THEN [unit |-> cur, rest |-> s]
    ELSE ReadUnit(Tail(s), Append(cur, Head(s)))

\* The loop of time.ParseDuration over (number unit)+ groups; texts with a
\* fraction are outside the texts used here.
RECURSIVE DurationGroups(_, _)
DurationGroups(s, d) ==
    IF s = <<>> THEN [ok |-> TRUE, val |-> d, why |-> ""]
    ELSE IF Head(s) \notin Digits THEN [ok |-> FALSE, val |-> 0, why |-> "invalid duration"]
    ELSE LET r == ReadDigits(s, 0, 0, FALSE)
             u == ReadUnit(r.rest, <<>>)
             n == UnitNanos(u.unit)
         IN  IF r.big THEN [ok |-> FALSE, val |-> 0, why |-> "invalid duration"]
             ELSE IF u.unit = <<>> THEN [ok |-> FALSE, val |-> 0, why |-> "missing unit in duration"]
             ELSE IF n = 0 THEN [ok |-> FALSE, val |-> 0, why |-> "unknown unit in duration"]
             ELSE IF r.val > (Pow2(30) - 1 - d) \div n
                  THEN [ok |-> FALSE, val |-> 0, why |-> "invalid duration"]
             ELSE DurationGroups(u.rest, d + r.val * n)

\* time.ParseDuration(s)
ParseDuration(s) ==
    LET neg == s # <<>> /\ Head(s) = "-"
        body == IF s # <<>> /\ Head(s) \in {"+", "-"} THEN Tail(s) ELSE s
        r == DurationGroups(body, 0)
    IN  IF body = <<"0">> THEN [ok |-> TRUE, val |-> 0, why |-> ""]
        ELSE IF body = <<>> THEN [ok |-> FALSE, val |-> 0, why |-> "invalid duration"]
        ELSE IF r.ok /\ neg THEN [r EXCEPT !.val = 0 - r.val]
        ELSE r

-----------------------------------------------------------------------------
(* Types: reflect.Type as a term.  <<"*"> \o t is pointer to t, <<"[]">> \o t *)
(* a slice, <<"[2]">> \o t an array of two, <<"map", k>> \o t a map with a    *)
(* named key type, and <<n>> the declared type n of the table Named.          *)

T_true == <<"t", "r", "u", "e">>
T_yay == <<"y", "a", "y">>
T_foo == <<"f", "o", "o">>
T_bar == <<"b", "a", "r">>

\* reflect.StructField: Name, Type, Tag, and whether the name is exported
\* (IsExported) and the field embedded (Anonymous).
Fld(name, type, tag, exported, anonymous) ==
    [name |-> name, type |-> type, tag |-> tag, exported |-> exported, anonymous |-> anonymous]

\* A struct tag `default:"v"`.
DefaultTag(v) == <<[key |-> "default", val |-> v]>>

NoTag == <<>>

Basic(kind) == [kind |-> kind, name |-> kind, pkg |-> "", fields |-> <<>>]

StructType(name, pkg, fields) == [kind |-> "struct", name |-> name, pkg |-> pkg, fields |-> fields]

PtrTo(t) == <<"*">> \o t

\* The names of the declared types of the records under test.
TypeNames ==
    {"Duration", "interface", "basic", "Parent", "Child", "Bad", "pp",
     "TestExportedWithUnexportedField", "Hidden", "HiddenArr", "Quiet", "Untagged", "ppDeep",
     "ppInner", "ppPtr", "Tx", "TxPtr", "Family", "Embedded1", "Embedded2", "embedded3",
     "Leaf", "yay", "wait", "directSelfCycle", "cyclicParent1", "cyclicChild1",
     "nestedPointerCycle", "Seqs", "SeqBlank", "SeqBad", "Durs", "DurNums", "Maps",
     "MapBadKey", "MapBadItem", "MapBadBoth", "Wrong", "WrongIn", "Ptrs", "PtrSeq", "PtrMap",
     "Arrs", "Item", "Tagged", "Bare", "Plain", "Narrow8", "Under8", "Over8u", "Narrow16",
     "Over16u", "Narrow32", "Under32", "Over32u", "Edges", "deepCyclic1", "deepCyclic2",
     "deepMultiCyclic1", "deepMultiCyclic2", "deepMultiCyclic3", "embeddedCyclic",
     "embeddedCyclic.Inner", "structWithSlice", "structWithMap", "structWithInterface",
     "sliceSelf", "mapSelf", "arraySelf", "diamond", "leadsToCycle"}

\* The declaration of each of them.
Declared(n) ==
    CASE n = "Duration" -> [kind |-> "int64", name |-> "Duration", pkg |-> "time", fields |-> <<>>]
      [] n = "interface" -> [kind |-> "interface", name |-> "", pkg |-> "", fields |-> <<>>]
      \* an anonymous struct passed as the root
      [] n = "basic" -> StructType("", "", <<
            Fld("Flag", <<"bool">>, DefaultTag(T_true), TRUE, FALSE),
            Fld("Wait", <<"Duration">>, DefaultTag(<<"1">>), TRUE, FALSE),
            Fld("Zero", <<"int">>, DefaultTag(<<"0">>), TRUE, FALSE),
            Fld("Plain", <<"string">>, NoTag, TRUE, FALSE)>>)
      [] n = "Parent" -> StructType("Parent", "main", <<
            Fld("Field1", <<"bool">>, DefaultTag(T_true), TRUE, FALSE),
            Fld("Child", <<"Child">>, NoTag, TRUE, FALSE),
            Fld("PChild", PtrTo(<<"Child">>), NoTag, TRUE, FALSE)>>)
      [] n = "Child" -> StructType("Child", "main", <<
            Fld("Field2", <<"int8">>, DefaultTag(<<"1", "2", "3">>), TRUE, FALSE),
            Fld("PInt", PtrTo(<<"int">>), DefaultTag(<<"3">>), TRUE, FALSE)>>)
      \* a field of a kind no bundled defaulter handles, between two that are
      [] n = "Bad" -> StructType("Bad", "main", <<
            Fld("Ok", <<"string">>, DefaultTag(T_foo), TRUE, FALSE),
            Fld("Arr", <<"[2]", "int">>, DefaultTag(<<"1">>), TRUE, FALSE),
            Fld("After", <<"string">>, DefaultTag(T_bar), TRUE, FALSE)>>)
      [] n = "pp" -> StructType("", "", <<
            Fld("Field", PtrTo(PtrTo(<<"int">>)), DefaultTag(<<"3">>), TRUE, FALSE)>>)
      [] n = "TestExportedWithUnexportedField" ->
            StructType("TestExportedWithUnexportedField", "testtypes", <<
            Fld("ExportedField", <<"string">>, DefaultTag(T_foo), TRUE, FALSE),
            Fld("unexportedField", <<"string">>, DefaultTag(T_bar), FALSE, FALSE)>>)
      \* an unexported pointer to a record, then an exported field
      [] n = "Hidden" -> StructType("Hidden", "main", <<
            Fld("Name", <<"string">>, DefaultTag(T_foo), TRUE, FALSE),
            Fld("inner", PtrTo(<<"Leaf">>), NoTag, FALSE, FALSE),
            Fld("After", <<"bool">>, DefaultTag(T_true), TRUE, FALSE)>>)
      \* an unexported field of a kind no bundled defaulter handles
      [] n = "HiddenArr" -> StructType("HiddenArr", "main", <<
            Fld("arr", <<"[2]", "int">>, DefaultTag(<<"1">>), FALSE, FALSE),
            Fld("After", <<"bool">>, DefaultTag(T_true), TRUE, FALSE)>>)
      \* an unexported field without a default between two exported ones
      [] n = "Quiet" -> StructType("Quiet", "main", <<
            Fld("Name", <<"string">>, DefaultTag(T_foo), TRUE, FALSE),
            Fld("note", <<"string">>, NoTag, FALSE, FALSE),
            Fld("After", <<"bool">>, DefaultTag(T_true), TRUE, FALSE)>>)
      \* fields without a default, of types that are refused when they have one
      [] n = "Untagged" -> StructType("Untagged", "main", <<
            Fld("PP", PtrTo(PtrTo(<<"int">>)), NoTag, TRUE, FALSE),
            Fld("Arr", <<"[2]", "int">>, NoTag, TRUE, FALSE),
            Fld("After", <<"bool">>, DefaultTag(T_true), TRUE, FALSE)>>)
      \* a pointer to a pointer one level down, in a record held by value
      [] n = "ppDeep" -> StructType("", "", <<
            Fld("Ok", <<"string">>, DefaultTag(T_foo), TRUE, FALSE),
            Fld("Field", <<"ppInner">>, NoTag, TRUE, FALSE),
            Fld("After", <<"bool">>, DefaultTag(T_true), TRUE, FALSE)>>)
      [] n = "ppInner" -> StructType("", "", <<
            Fld("Field1", PtrTo(PtrTo(<<"int">>)), DefaultTag(<<"1", "2", "3">>), TRUE, FALSE)>>)
      \* and in a record behind a pointer
      [] n = "ppPtr" -> StructType("ppPtr", "main", <<
            Fld("In", PtrTo(<<"ppInner">>), NoTag, TRUE, FALSE)>>)
      \* a failure in the middle: in a record held by value, with fields and
      \* a pointer to a record behind it
      [] n = "Tx" -> StructType("Tx", "main", <<
            Fld("First", <<"string">>, DefaultTag(T_foo), TRUE, FALSE),
            Fld("In", <<"Bad">>, NoTag, TRUE, FALSE),
            Fld("Later", PtrTo(<<"Leaf">>), NoTag, TRUE, FALSE),
            Fld("Last", <<"bool">>, DefaultTag(T_true), TRUE, FALSE)>>)
      \* and in a record behind a pointer
      [] n = "TxPtr" -> StructType("TxPtr", "main", <<
            Fld("In", PtrTo(<<"Bad">>), NoTag, TRUE, FALSE),
            Fld("Last", <<"bool">>, DefaultTag(T_true), TRUE, FALSE)>>)
      \* embedded records: by value, behind a pointer, and of an unexported type
      [] n = "Family" -> StructType("Family", "main", <<
            Fld("Field3", <<"string">>, DefaultTag(T_foo), TRUE, FALSE),
            Fld("Embedded1", <<"Embedded1">>, NoTag, TRUE, TRUE),
            Fld("Embedded2", PtrTo(<<"Embedded2">>), NoTag, TRUE, TRUE),
            Fld("embedded3", <<"embedded3">>, NoTag, FALSE, TRUE)>>)
      [] n = "Embedded1" -> StructType("Embedded1", "main", <<
            Fld("Field4", <<"bool">>, DefaultTag(T_true), TRUE, FALSE)>>)
      [] n = "Embedded2" -> StructType("Embedded2", "main", <<
            Fld("Field5", <<"int">>, DefaultTag(<<"1", "2", "3">>), TRUE, FALSE)>>)
      [] n = "embedded3" -> StructType("embedded3", "main", <<
            Fld("Field6", <<"int16">>, DefaultTag(<<"-", "7">>), TRUE, FALSE)>>)
      [] n = "Leaf" -> StructType("Leaf", "main", <<
            Fld("On", <<"bool">>, DefaultTag(T_true), TRUE, FALSE)>>)
      \* a default no bundled defaulter parses
      [] n = "yay" -> StructType("", "", <<
            Fld("Field", <<"bool">>, DefaultTag(T_yay), TRUE, FALSE),
            Fld("After", <<"string">>, DefaultTag(T_foo), TRUE, FALSE)>>)
      \* Duration1 of the tests: a duration whose default is a plain integer
      [] n = "wait" -> StructType("", "", <<
            Fld("Duration1", <<"Duration">>, DefaultTag(<<"1">>), TRUE, FALSE)>>)
      [] n = "directSelfCycle" -> StructType("directSelfCycle", "defaultz", <<
            Fld("Self", PtrTo(<<"directSelfCycle">>), NoTag, TRUE, FALSE)>>)
      [] n = "cyclicParent1" -> StructType("cyclicParent1", "defaultz_test", <<
            Fld("Field1", <<"bool">>, DefaultTag(T_true), TRUE, FALSE),
            Fld("Child", <<"cyclicChild1">>, NoTag, TRUE, FALSE)>>)
      [] n = "cyclicChild1" -> StructType("cyclicChild1", "defaultz_test", <<
            Fld("Field2", <<"int">>, DefaultTag(<<"1", "2", "3">>), TRUE, FALSE),
            Fld("Parent", PtrTo(<<"cyclicParent1">>), NoTag, TRUE, FALSE)>>)
      \* self-reference the detector does not follow
      [] n = "nestedPointerCycle" -> StructType("nestedPointerCycle", "defaultz", <<
            Fld("Ref", PtrTo(PtrTo(<<"nestedPointerCycle">>)), NoTag, TRUE, FALSE)>>)
      \* slices with defaults that convert, and one with an empty default
      [] n = "Seqs" -> StructType("Seqs", "main", <<
            Fld("A", <<"[]", "int">>, DefaultTag(<<"1", " ", "2", " ", "3">>), TRUE, FALSE),
            Fld("B", <<"[]", "int">>, DefaultTag(<<>>), TRUE, FALSE),
            Fld("C", <<"[]", "string">>, DefaultTag(<<"a", " ", "b">>), TRUE, FALSE),
            Fld("D", <<"[]", "int">>, DefaultTag(<<" ", "7", " ", " ", "-", "8", " ">>), TRUE, FALSE),
            Fld("E", <<"[]", "int8">>, DefaultTag(<<"3", " ", "2", " ", "1">>), TRUE, FALSE),
            Fld("F", <<"[]", "bool">>, DefaultTag(<<"t", "r", "u", "e", " ", "0", " ", "T">>), TRUE, FALSE),
            Fld("G", <<"[]", "uint">>, DefaultTag(<<"4">>), TRUE, FALSE),
            Fld("After", <<"bool">>, DefaultTag(<<"t", "r", "u", "e">>), TRUE, FALSE)>>)
      \* defaults the extractor finds and that hold no item
      [] n = "SeqBlank" -> StructType("SeqBlank", "main", <<
            Fld("A", <<"[]", "int">>, DefaultTag(<<" ">>), TRUE, FALSE),
            Fld("B", <<"[]", "string">>, DefaultTag(<<",">>), TRUE, FALSE),
            Fld("After", <<"bool">>, DefaultTag(<<"t", "r", "u", "e">>), TRUE, FALSE)>>)
      \* an item that is no number
      [] n = "SeqBad" -> StructType("SeqBad", "main", <<
            Fld("A", <<"[]", "int">>, DefaultTag(<<"1", " ", "x", " ", "3">>), TRUE, FALSE),
            Fld("After", <<"bool">>, DefaultTag(<<"t", "r", "u", "e">>), TRUE, FALSE)>>)
      \* Field8 of the README
      [] n = "Durs" -> StructType("Durs", "main", <<
            Fld("Field8", <<"[]", "Duration">>, DefaultTag(<<"1", "s", " ", "2", "m">>), TRUE, FALSE),
            Fld("After", <<"bool">>, DefaultTag(<<"t", "r", "u", "e">>), TRUE, FALSE)>>)
      \* durations written as numbers
      [] n = "DurNums" -> StructType("DurNums", "main", <<
            Fld("A", <<"[]", "Duration">>, DefaultTag(<<"5", " ", "7">>), TRUE, FALSE)>>)
      \* maps with defaults that convert, with an empty default, and with pairs
      \* without a colon, with two colons and with the same key
      [] n = "Maps" -> StructType("Maps", "main", <<
            Fld("A", <<"map", "string", "int">>, DefaultTag(<<"a", ":", "1", " ", "b", ":", "2">>), TRUE, FALSE),
            Fld("B", <<"map", "string", "int">>, DefaultTag(<<"b", ":", "2", " ", "a", ":", "1">>), TRUE, FALSE),
            Fld("C", <<"map", "int", "string">>, DefaultTag(<<"3", ":", "x", " ", "4", ":", "y">>), TRUE, FALSE),
            Fld("D", <<"map", "string", "int">>, DefaultTag(<<>>), TRUE, FALSE),
            Fld("E", <<"map", "string", "bool">>, DefaultTag(<<"a", ":", "t", "r", "u", "e", " ", "b", ":", "f", "a", "l", "s", "e">>), TRUE, FALSE),
            Fld("F", <<"map", "string", "string">>, DefaultTag(<<"a", " ", "b", ":", "c", ":", "d", " ", "b", ":", "e">>), TRUE, FALSE),
            Fld("After", <<"bool">>, DefaultTag(<<"t", "r", "u", "e">>), TRUE, FALSE)>>)
      \* a key that is no number
      [] n = "MapBadKey" -> StructType("MapBadKey", "main", <<
            Fld("A", <<"map", "int", "int">>, DefaultTag(<<"3", ":", "1", " ", "x", ":", "2">>), TRUE, FALSE),
            Fld("After", <<"bool">>, DefaultTag(<<"t", "r", "u", "e">>), TRUE, FALSE)>>)
      \* a value that is no number
      [] n = "MapBadItem" -> StructType("MapBadItem", "main", <<
            Fld("A", <<"map", "string", "int">>, DefaultTag(<<"a", ":", "1", " ", "b", ":", "x">>), TRUE, FALSE),
            Fld("After", <<"bool">>, DefaultTag(<<"t", "r", "u", "e">>), TRUE, FALSE)>>)
      \* neither key nor value is a number
      [] n = "MapBadBoth" -> StructType("MapBadBoth", "main", <<
            Fld("A", <<"map", "int", "int">>, DefaultTag(<<"x", ":", "y">>), TRUE, FALSE),
            Fld("After", <<"bool">>, DefaultTag(<<"t", "r", "u", "e">>), TRUE, FALSE)>>)
      \* a default out of the range of its kind, one record down
      [] n = "Wrong" -> StructType("Wrong", "main", <<
            Fld("Ok", <<"string">>, DefaultTag(T_foo), TRUE, FALSE),
            Fld("In", <<"WrongIn">>, NoTag, TRUE, FALSE),
            Fld("After", <<"bool">>, DefaultTag(T_true), TRUE, FALSE)>>)
      [] n = "WrongIn" -> StructType("WrongIn", "main", <<
            Fld("N", <<"int8">>, DefaultTag(<<"3", "0", "0">>), TRUE, FALSE)>>)
      \* nil pointers to what the bundled defaulters handle
      [] n = "Ptrs" -> StructType("Ptrs", "main", <<
            Fld("B", PtrTo(<<"bool">>), DefaultTag(T_true), TRUE, FALSE),
            Fld("I", PtrTo(<<"int">>), DefaultTag(<<"0">>), TRUE, FALSE),
            Fld("I8", PtrTo(<<"int8">>), DefaultTag(<<"-", "1", "2", "3">>), TRUE, FALSE),
            Fld("U", PtrTo(<<"uint16">>), DefaultTag(<<"1", "2", "3">>), TRUE, FALSE),
            Fld("F", PtrTo(<<"float64">>), DefaultTag(<<"1", ".", "5">>), TRUE, FALSE),
            Fld("S", PtrTo(<<"string">>), DefaultTag(T_foo), TRUE, FALSE),
            Fld("D", PtrTo(<<"Duration">>), DefaultTag(<<"1", "s">>), TRUE, FALSE),
            Fld("After", <<"bool">>, DefaultTag(T_true), TRUE, FALSE)>>)
      [] n = "PtrSeq" -> StructType("PtrSeq", "main", <<
            Fld("A", <<"*", "[]", "int">>, DefaultTag(<<"1", " ", "2">>), TRUE, FALSE),
            Fld("After", <<"bool">>, DefaultTag(T_true), TRUE, FALSE)>>)
      [] n = "PtrMap" -> StructType("PtrMap", "main", <<
            Fld("A", <<"*", "map", "string", "int">>, DefaultTag(<<"a", ":", "1">>), TRUE, FALSE),
            Fld("After", <<"bool">>, DefaultTag(T_true), TRUE, FALSE)>>)
      \* a record by value, an array, a slice and a map of records
      [] n = "Arrs" -> StructType("Arrs", "main", <<
            Fld("Ok", <<"string">>, DefaultTag(T_foo), TRUE, FALSE),
            Fld("Field", <<"[2]", "Item">>, NoTag, TRUE, FALSE),
            Fld("In", <<"Item">>, NoTag, TRUE, FALSE),
            Fld("S", <<"[]", "Item">>, NoTag, TRUE, FALSE),
            Fld("M", <<"map", "string", "Item">>, NoTag, TRUE, FALSE),
            Fld("After", <<"bool">>, DefaultTag(T_true), TRUE, FALSE)>>)
      [] n = "Item" -> StructType("Item", "main", <<
            Fld("Foo", <<"string">>, DefaultTag(T_bar), TRUE, FALSE)>>)
      \* a record and a pointer to a record that carry defaults themselves
      [] n = "Tagged" -> StructType("Tagged", "main", <<
            Fld("In", <<"Item">>, DefaultTag(<<"x">>), TRUE, FALSE),
            Fld("P", PtrTo(<<"Item">>), DefaultTag(<<"y">>), TRUE, FALSE),
            Fld("After", <<"bool">>, DefaultTag(T_true), TRUE, FALSE)>>)
      \* a pointer to a record, and no default anywhere
      [] n = "Bare" -> StructType("Bare", "main", <<
            Fld("P", PtrTo(<<"Plain">>), NoTag, TRUE, FALSE)>>)
      [] n = "Plain" -> StructType("Plain", "main", <<
            Fld("Note", <<"string">>, NoTag, TRUE, FALSE),
            Fld("Count", <<"int">>, NoTag, TRUE, FALSE)>>)
      \* numbers out of the range of their kind: as items of slices and maps, then as a field
      [] n = "Narrow8" -> StructType("Narrow8", "main", <<
            Fld("S", <<"[]", "int8">>, DefaultTag(<<"3", "0", "0", " ", "-", "1", "2", "9", " ", "1", "2", "7", " ", "-", "1", "2", "8", " ", "2", "0", "0">>), TRUE, FALSE),
            Fld("U", <<"[]", "uint8">>, DefaultTag(<<"2", "5", "6", " ", "2", "5", "5", " ", "5", "1", "1">>), TRUE, FALSE),
            Fld("M", <<"map", "int8", "uint8">>, DefaultTag(<<"2", "0", "0", ":", "3", "0", "0", " ", "-", "1", "2", "9", ":", "7">>), TRUE, FALSE),
            Fld("N", <<"int8">>, DefaultTag(<<"1", "2", "8">>), TRUE, FALSE),
            Fld("After", <<"bool">>, DefaultTag(<<"t", "r", "u", "e">>), TRUE, FALSE)>>)
      [] n = "Under8" -> StructType("Under8", "main", <<
            Fld("N", <<"int8">>, DefaultTag(<<"-", "1", "2", "9">>), TRUE, FALSE),
            Fld("After", <<"bool">>, DefaultTag(<<"t", "r", "u", "e">>), TRUE, FALSE)>>)
      [] n = "Over8u" -> StructType("Over8u", "main", <<
            Fld("N", <<"uint8">>, DefaultTag(<<"2", "5", "6">>), TRUE, FALSE),
            Fld("After", <<"bool">>, DefaultTag(<<"t", "r", "u", "e">>), TRUE, FALSE)>>)
      [] n = "Narrow16" -> StructType("Narrow16", "main", <<
            Fld("S", <<"[]", "int16">>, DefaultTag(<<"3", "2", "7", "6", "8", " ", "-", "3", "2", "7", "6", "9", " ", "6", "5", "5", "3", "6">>), TRUE, FALSE),
            Fld("U", <<"[]", "uint16">>, DefaultTag(<<"6", "5", "5", "3", "6", " ", "6", "5", "5", "3", "5">>), TRUE, FALSE),
            Fld("N", <<"int16">>, DefaultTag(<<"3", "2", "7", "6", "8">>), TRUE, FALSE),
            Fld("After", <<"bool">>, DefaultTag(<<"t", "r", "u", "e">>), TRUE, FALSE)>>)
      [] n = "Over16u" -> StructType("Over16u", "main", <<
            Fld("N", <<"uint16">>, DefaultTag(<<"6", "5", "5", "3", "6">>), TRUE, FALSE),
            Fld("After", <<"bool">>, DefaultTag(<<"t", "r", "u", "e">>), TRUE, FALSE)>>)
      [] n = "Narrow32" -> StructType("Narrow32", "main", <<
            Fld("S", <<"[]", "int32">>, DefaultTag(<<"2", "1", "4", "7", "4", "8", "3", "6", "4", "8", " ", "4", "2", "9", "4", "9", "6", "7", "2", "9", "7", " ", "-", "2", "1", "4", "7", "4", "8", "3", "6", "4", "9", " ", "2", "1", "4", "7", "4", "8", "3", "6", "4", "7", " ", "-", "2", "1", "4", "7", "4", "8", "3", "6", "4", "8">>), TRUE, FALSE),
            Fld("U", <<"[]", "uint32">>, DefaultTag(<<"4", "2", "9", "4", "9", "6", "7", "2", "9", "7", " ", "4", "2", "9", "4", "9", "6", "7", "2", "9", "6", " ", "7">>), TRUE, FALSE),
            Fld("N", <<"int32">>, DefaultTag(<<"2", "1", "4", "7", "4", "8", "3", "6", "4", "8">>), TRUE, FALSE),
            Fld("After", <<"bool">>, DefaultTag(<<"t", "r", "u", "e">>), TRUE, FALSE)>>)
      [] n = "Under32" -> StructType("Under32", "main", <<
            Fld("N", <<"int32">>, DefaultTag(<<"-", "2", "1", "4", "7", "4", "8", "3", "6", "4", "9">>), TRUE, FALSE),
            Fld("After", <<"bool">>, DefaultTag(<<"t", "r", "u", "e">>), TRUE, FALSE)>>)
      [] n = "Over32u" -> StructType("Over32u", "main", <<
            Fld("N", <<"uint32">>, DefaultTag(<<"4", "2", "9", "4", "9", "6", "7", "2", "9", "6">>), TRUE, FALSE),
            Fld("After", <<"bool">>, DefaultTag(<<"t", "r", "u", "e">>), TRUE, FALSE)>>)
      \* the least and the greatest numbers of a kind
      [] n = "Edges" -> StructType("Edges", "main", <<
            Fld("A", <<"int8">>, DefaultTag(<<"1", "2", "7">>), TRUE, FALSE),
            Fld("B", <<"int8">>, DefaultTag(<<"-", "1", "2", "8">>), TRUE, FALSE),
            Fld("C", <<"uint16">>, DefaultTag(<<"6", "5", "5", "3", "5">>), TRUE, FALSE),
            Fld("D", <<"int32">>, DefaultTag(<<"-", "2", "1", "4", "7", "4", "8", "3", "6", "4", "8">>), TRUE, FALSE),
            Fld("E", <<"int32">>, DefaultTag(<<"2", "1", "4", "7", "4", "8", "3", "6", "4", "7">>), TRUE, FALSE)>>)
      \* the types of TestDetectPotentialCycles
      [] n = "deepCyclic1" -> StructType("deepCyclic1", "defaultz", <<
            Fld("Next", PtrTo(<<"deepCyclic2">>), NoTag, TRUE, FALSE)>>)
      [] n = "deepCyclic2" -> StructType("deepCyclic2", "defaultz", <<
            Fld("Next", PtrTo(<<"deepCyclic1">>), NoTag, TRUE, FALSE)>>)
      [] n = "deepMultiCyclic1" -> StructType("deepMultiCyclic1", "defaultz", <<
            Fld("Ref", PtrTo(<<"deepMultiCyclic2">>), NoTag, TRUE, FALSE)>>)
      [] n = "deepMultiCyclic2" -> StructType("deepMultiCyclic2", "defaultz", <<
            Fld("Ref", PtrTo(<<"deepMultiCyclic3">>), NoTag, TRUE, FALSE)>>)
      [] n = "deepMultiCyclic3" -> StructType("deepMultiCyclic3", "defaultz", <<
            Fld("Ref", PtrTo(<<"deepMultiCyclic1">>), NoTag, TRUE, FALSE)>>)
      [] n = "embeddedCyclic" -> StructType("embeddedCyclic", "defaultz", <<
            Fld("Inner", <<"embeddedCyclic.Inner">>, NoTag, TRUE, FALSE)>>)
      \* the anonymous struct type of embeddedCyclic.Inner
      [] n = "embeddedCyclic.Inner" -> StructType("", "", <<
            Fld("Parent", PtrTo(<<"embeddedCyclic">>), NoTag, TRUE, FALSE)>>)
      [] n = "structWithSlice" -> StructType("structWithSlice", "defaultz", <<
            Fld("List", <<"[]", "string">>, NoTag, TRUE, FALSE)>>)
      [] n = "structWithMap" -> StructType("structWithMap", "defaultz", <<
            Fld("Lookup", <<"map", "string", "int">>, NoTag, TRUE, FALSE)>>)
      [] n = "structWithInterface" -> StructType("structWithInterface", "defaultz", <<
            Fld("Any", <<"interface">>, NoTag, TRUE, FALSE)>>)
      \* types that come back to themselves through a slice, a map, an array of pointers
      [] n = "sliceSelf" -> StructType("sliceSelf", "main", <<
            Fld("Items", <<"[]", "sliceSelf">>, NoTag, TRUE, FALSE)>>)
      [] n = "mapSelf" -> StructType("mapSelf", "main", <<
            Fld("Of", <<"map", "string", "mapSelf">>, NoTag, TRUE, FALSE)>>)
      [] n = "arraySelf" -> StructType("arraySelf", "main", <<
            Fld("Both", <<"[2]", "*", "arraySelf">>, NoTag, TRUE, FALSE)>>)
      \* a record that holds one record type three times, two levels down too
      [] n = "diamond" -> StructType("diamond", "main", <<
            Fld("L", <<"Child">>, NoTag, TRUE, FALSE),
            Fld("R", PtrTo(<<"Child">>), NoTag, TRUE, FALSE),
            Fld("P", <<"Parent">>, NoTag, TRUE, FALSE)>>)
      \* a record that is on no cycle itself and leads to one, behind a leaf
      [] n = "leadsToCycle" -> StructType("leadsToCycle", "main", <<
            Fld("Fine", <<"Leaf">>, NoTag, TRUE, FALSE),
            Fld("Turns", PtrTo(<<"deepCyclic1">>), NoTag, TRUE, FALSE),
            Fld("After", <<"bool">>, DefaultTag(T_true), TRUE, FALSE)>>)

DeclaredTypes == [n \in TypeNames |-> Declared(n)]

\* The type of a name: a declared type, or else a basic kind.
Named(n) == IF n \in DOMAIN types THEN types[n] ELSE Basic(n)

\* reflect.Type.Kind()
Kind(t) ==
    CASE t = <<>> -> "invalid"
      [] Head(t) = "*" -> "ptr"
      [] Head(t) = "[]" -> "slice"
      [] Head(t) = "[2]" -> "array"
      [] Head(t) = "map" -> "map"
      [] OTHER -> Named(Head(t)).kind

\* reflect.Type.Elem()
Elem(t) == IF Head(t) = "map" THEN Tail(Tail(t)) ELSE Tail(t)

\* reflect.Type.Key()
Key(t) == <<t[2]>>

\* reflect.Type.Field(i), NumField(), Name(), PkgPath()
TypeFields(t) == Named(Head(t)).fields
NumField(t) == Len(TypeFields(t))
TypeName(t) == IF Len(t) = 1 THEN Named(Head(t)).name ELSE ""
PkgPath(t) == IF Len(t) = 1 THEN Named(Head(t)).pkg ELSE ""

-----------------------------------------------------------------------------
(* Values.  A bool is a BOOLEAN, an integer kind an integer, a string a    *)
(* text, a pointer an address into the heap (0 is nil), a struct or array  *)
(* the sequence of its fields or elements, a slice or map a record with    *)
(* its nil flag, an interface the address of what it holds (0 is nil).     *)

IntKinds == {"int", "int8", "int16", "int32", "int64"}
UintKinds == {"uint", "uint8", "uint16", "uint32", "uint64"}
FloatKinds == {"float32", "float64"}

NilSlice == [nil |-> TRUE, elems |-> <<>>]
NilMap == [nil |-> TRUE, pairs |-> {}]

\* reflect.Zero(t)
RECURSIVE Zero(_)
Zero(t) ==
    LET k == Kind(t)
    IN  CASE k = "bool" -> FALSE
          [] k \in IntKinds \cup UintKinds \cup FloatKinds -> 0
          [] k = "string" -> <<>>
          [] k \in {"ptr", "interface"} -> 0
          [] k = "slice" -> NilSlice
          [] k = "map" -> NilMap
          [] k = "array" -> <<Zero(Elem(t)), Zero(Elem(t))>>
          [] k = "struct" -> [i \in 1..NumField(t) |-> Zero(TypeFields(t)[i].type)]

\* reflect.Value.IsZero()
RECURSIVE IsZero(_, _)
IsZero(t, v) ==
    LET k == Kind(t)
    IN  CASE k = "bool" -> v = FALSE
          [] k \in IntKinds \cup UintKinds \cup FloatKinds -> v = 0
          [] k = "string" -> Len(v) = 0
          [] k \in {"ptr", "interface"} -> v = 0
          [] k \in {"slice", "map"} -> v.nil
          [] k = "array" -> \A i \in 1..Len(v) : IsZero(Elem(t), v[i])
          [] k = "struct" -> \A i \in 1..NumField(t) : IsZero(TypeFields(t)[i].type, v[i])

RECURSIVE GetIn(_, _)
GetIn(v, path) == IF path = <<>> THEN v ELSE GetIn(v[Head(path)], Tail(path))

RECURSIVE SetIn(_, _, _)
SetIn(v, path, nv) ==
    IF path = <<>> THEN nv ELSE [v EXCEPT ![Head(path)] = SetIn(@, Tail(path), nv)]

\* A reflect.Value that refers to storage: the cell, the way down to the
\* field inside it, its static type, and reflect's two read-only flags
\* (flagStickyRO, flagEmbedRO).
Ref(addr, path, type, sticky, embed) ==
    [addr |-> addr, path |-> path, type |-> type, sticky |-> sticky, embed |-> embed]

Load(h, ref) == GetIn(h[ref.addr].val, ref.path)

Store(h, ref, v) == [h EXCEPT ![ref.addr].val = SetIn(@, ref.path, v)]

\* reflect.Value.CanSet(): addressable and not reached through an
\* unexported field.  Everything below the root pointer is addressable.
CanSet(ref) == ~ref.sticky /\ ~ref.embed

\* reflect.Value.Field(i): the sticky flag is inherited, the embed flag is not.
FieldRef(ref, i) ==
    LET f == TypeFields(ref.type)[i]
    IN  Ref(ref.addr, Append(ref.path, i), f.type,
            ref.sticky \/ (~f.exported /\ ~f.anonymous),
            ~f.exported /\ f.anonymous)

\* reflect.Value.Elem() of a non-nil pointer: both read-only flags are kept.
ElemRef(h, ref) == Ref(Load(h, ref), <<>>, Elem(ref.type), ref.sticky, ref.embed)

\* reflect.New(t): a fresh cell holding the zero value of t.
NewCell(t) == [type |-> t, val |-> Zero(t)]

-----------------------------------------------------------------------------
(* Errors *)

\* No error (nil).
NoErr ==
    [code |-> "", msg |-> "", args |-> <<>>, path |-> <<>>, field |-> <<>>, defaulter |-> "",
     errs |-> <<>>]

\* errors.New(text)
PlainErr(text) == [NoErr EXCEPT !.code = text]

\* NewError(defaulter, err, fieldPath, field, msg); defaulter "" is nil.
NewError(defaulter, code, fieldPath, field, msg) ==
    [code |-> code, msg |-> msg, args |-> <<>>, path |-> fieldPath, field |-> <<field>>,
     defaulter |-> defaulter, errs |-> <<>>]

ErrCannotSetField == "cannot set field"
ErrCannotExtractDefault == "cannot extract default value"
ErrInvalidDefaultValue == "invalid default value"
ErrInvalidDefaultValueItem == "invalid default value item"
ErrInvalidDefaultValueKey == "invalid default value key"
ErrNotSupported == "not supported"

ErrInvalidInput == PlainErr("object must be a pointer to a struct")
ErrCyclic == PlainErr("type definition must not have cycles")
ErrNoExtractor == PlainErr("default extractor is not set")
ErrNoDefaulters == PlainErr("no defaulters are registered")

\* A run-time panic of package reflect: the call does not return.
Panic(msg) == [NoErr EXCEPT !.code = "panic", !.msg = msg]

\* fmt.Errorf("failed to apply default value: %w", ...) around the one
\* collected error, or around the multierror holding all of them.
ErrFailedToApply(errs) == [NoErr EXCEPT !.code = "failed to apply default value", !.errs = errs]

-----------------------------------------------------------------------------
(* The extractor *)

NilExtractor == [kind |-> "nil", TagName |-> "", Prefix |-> <<>>, Separator |-> <<>>, failAt |-> ""]

\* NewDefaultzExtractor(tagName, prefix, separator)
NewDefaultzExtractor(tagName, prefix, separator) ==
    [kind |-> "defaultz", TagName |-> tagName, Prefix |-> prefix, Separator |-> separator,
     failAt |-> ""]

\* extractorInstance
extractorInstance == NewDefaultzExtractor("default", <<>>, <<",">>)

\* reflect.StructTag.Lookup(key)
RECURSIVE Lookup(_, _)
Lookup(tag, key) ==
    IF tag = <<>> THEN [ok |-> FALSE, val |-> <<>>]
    ELSE IF Head(tag).key = key THEN [ok |-> TRUE, val |-> Head(tag).val]
    ELSE Lookup(Tail(tag), key)

\* The loop over the pieces of the tag without the trimming.
RECURSIVE FirstWithPrefixUntrimmed(_, _)
FirstWithPrefixUntrimmed(tagParts, prefix) ==
    IF tagParts = <<>> THEN [value |-> <<>>, found |-> FALSE, err |-> NoErr]
    ELSE IF HasPrefix(Head(tagParts), prefix)
         THEN [value |-> TrimPrefix(Head(tagParts), prefix), found |-> TRUE, err |-> NoErr]
         ELSE FirstWithPrefixUntrimmed(Tail(tagParts), prefix)

\* The loop of ExtractDefault over the pieces of the tag.
RECURSIVE FirstWithPrefix(_, _)
FirstWithPrefix(tagParts, prefix) ==
    IF tagParts = <<>> THEN [value |-> <<>>, found |-> FALSE, err |-> NoErr]
    ELSE LET tagPart == TrimSpace(Head(tagParts))
         IN  IF HasPrefix(tagPart, prefix)
             THEN [value |-> TrimPrefix(tagPart, prefix), found |-> TRUE, err |-> NoErr]
             ELSE FirstWithPrefix(Tail(tagParts), prefix)

\* DefaultzExtractor.ExtractDefault(field)
DefaultzExtractDefault(d, field) ==
    LET t == Lookup(field.tag, d.TagName)
    IN  IF ~t.ok THEN [value |-> <<>>, found |-> FALSE, err |-> NoErr]
        ELSE IF t.val = <<>> THEN [value |-> <<>>, found |-> FALSE, err |-> NoErr]
        ELSE FirstWithPrefix(Split(t.val, d.Separator), d.Prefix)

\* A stand-in for a DefaultExtractor a caller wrote: it reads the tag
\* "default" as the bundled one does, and reports an error for the fields
\* named failAt.
StubExtractor(failAt) ==
    [kind |-> "stub", TagName |-> "default", Prefix |-> <<>>, Separator |-> <<",">>,
     failAt |-> failAt]

StubExtractDefault(d, field) ==
    IF field.name = d.failAt
    THEN [value |-> <<>>, found |-> FALSE, err |-> PlainErr("extractor failed")]
    ELSE DefaultzExtractDefault(d, field)

\* DefaultExtractor.ExtractDefault(field), by dynamic type.
ExtractDefault(d, field) ==
    IF d.kind = "stub" THEN StubExtractDefault(d, field) ELSE DefaultzExtractDefault(d, field)

-----------------------------------------------------------------------------
(* The registry *)

PriorityPrimitiveDefaulter == 1000
PriorityOtherDefaulter == 2000

AllKinds ==
    {"bool", "string", "slice", "map", "array", "struct", "ptr", "interface"}
        \cup IntKinds \cup UintKinds \cup FloatKinds

\* A Defaulter: Name(), HandledKinds(), and, for the stand-in defaulters a
\* caller registers, the answer its HandleField gives.
Dft(name, kinds, callNext, set, fails) ==
    [name |-> name, kinds |-> kinds, callNext |-> callNext, set |-> set, fails |-> fails]

BoolDefaulter == Dft("defaultz.BoolDefaulter", <<"bool">>, TRUE, TRUE, FALSE)
IntDefaulter ==
    Dft("defaultz.IntDefaulter", <<"int", "int8", "int16", "int32", "int64">>, TRUE, TRUE, FALSE)
UintDefaulter ==
    Dft("defaultz.UintDefaulter", <<"uint", "uint8", "uint16", "uint32", "uint64">>, TRUE, TRUE, FALSE)
FloatDefaulter == Dft("defaultz.FloatDefaulter", <<"float32", "float64">>, TRUE, TRUE, FALSE)
SliceDefaulter == Dft("defaultz.SliceDefaulter", <<"slice">>, TRUE, TRUE, FALSE)
MapDefaulter == Dft("defaultz.MapDefaulter", <<"map">>, TRUE, TRUE, FALSE)
StringDefaulter == Dft("defaultz.StringDefaulter", <<"string">>, TRUE, TRUE, FALSE)
DurationDefaulter == Dft("defaultz.DurationDefaulter", <<"int64">>, TRUE, TRUE, FALSE)

\* customDefaulter of the tests: reads "yay" as true and stops the chain.
customDefaulter == Dft("test.customDefaulter", <<"bool">>, FALSE, TRUE, FALSE)

\* DefaulterWithPriority
DefaulterWithPriority(d, priority) == [Defaulter |-> d, Priority |-> priority]

\* An insertion that puts x ahead of the entries of its own priority.
RECURSIVE InsertBeforeEqual(_, _)
InsertBeforeEqual(dwps, x) ==
    IF dwps = <<>> THEN <<x>>
    ELSE IF x.Priority <= Head(dwps).Priority THEN <<x>> \o dwps
    ELSE <<Head(dwps)>> \o InsertBeforeEqual(Tail(dwps), x)

\* Where sort.SliceStable leaves x among the already sorted dwps: behind
\* every entry whose priority is not greater.
RECURSIVE InsertByPriority(_, _)
InsertByPriority(dwps, x) ==
    IF dwps = <<>> THEN <<x>>
    ELSE IF x.Priority < Head(dwps).Priority THEN <<x>> \o dwps
    ELSE <<Head(dwps)>> \o InsertByPriority(Tail(dwps), x)

\* sortDefaulters(dwps): a stable sort by Priority, lowest first.
RECURSIVE sortDefaulters(_)
sortDefaulters(dwps) ==
    IF dwps = <<>> THEN <<>>
    ELSE InsertByPriority(sortDefaulters(SubSeq(dwps, 1, Len(dwps) - 1)), dwps[Len(dwps)])

\* The loop of Register over defaulter.HandledKinds().
RECURSIVE RegisterKinds(_, _, _, _)
RegisterKinds(ds, kinds, priority, defaulter) ==
    IF kinds = <<>> THEN ds
    ELSE LET kind == Head(kinds)
             appended == Append(ds[kind], DefaulterWithPriority(defaulter, priority))
         IN  RegisterKinds([ds EXCEPT ![kind] = sortDefaulters(appended)],
                           Tail(kinds), priority, defaulter)

\* defaulterRegistry.Register(priority, defaulter), on the registry's map.
RegisterIn(ds, priority, defaulter) == RegisterKinds(ds, defaulter.kinds, priority, defaulter)

\* The bundled defaulters with the DurationDefaulter registered first, level
\* with the primitive ones.
BasicDefaultersDurationFirst ==
    <<DefaulterWithPriority(DurationDefaulter, PriorityPrimitiveDefaulter),
      DefaulterWithPriority(BoolDefaulter, PriorityPrimitiveDefaulter),
      DefaulterWithPriority(IntDefaulter, PriorityPrimitiveDefaulter),
      DefaulterWithPriority(UintDefaulter, PriorityPrimitiveDefaulter),
      DefaulterWithPriority(FloatDefaulter, PriorityPrimitiveDefaulter),
      DefaulterWithPriority(SliceDefaulter, PriorityPrimitiveDefaulter),
      DefaulterWithPriority(MapDefaulter, PriorityPrimitiveDefaulter),
      DefaulterWithPriority(StringDefaulter, PriorityPrimitiveDefaulter)>>

\* The registrations of WithBasicDefaulters, in its order.
BasicDefaulters ==
    <<DefaulterWithPriority(BoolDefaulter, PriorityPrimitiveDefaulter),
      DefaulterWithPriority(IntDefaulter, PriorityPrimitiveDefaulter),
      DefaulterWithPriority(UintDefaulter, PriorityPrimitiveDefaulter),
      DefaulterWithPriority(FloatDefaulter, PriorityPrimitiveDefaulter),
      DefaulterWithPriority(SliceDefaulter, PriorityPrimitiveDefaulter),
      DefaulterWithPriority(MapDefaulter, PriorityPrimitiveDefaulter),
      DefaulterWithPriority(StringDefaulter, PriorityPrimitiveDefaulter),
      DefaulterWithPriority(DurationDefaulter, PriorityOtherDefaulter)>>

RECURSIVE RegisterAll(_, _)
RegisterAll(ds, dwps) ==
    IF dwps = <<>> THEN ds
    ELSE RegisterAll(RegisterIn(ds, Head(dwps).Priority, Head(dwps).Defaulter), Tail(dwps))

\* A registry value: the three fields of defaulterRegistry.
Registry(ds, ex, ign) == [defaulters |-> ds, extractor |-> ex, ignoreCannotSet |-> ign]

\* The options of NewDefaulterRegistry.
WithBasicDefaulters(r) == [r EXCEPT !.defaulters = RegisterAll(@, BasicDefaulters)]
WithDefaultExtractor(r, ex) == [r EXCEPT !.extractor = ex]
WithIgnoreCannotSet(r, ignore) == [r EXCEPT !.ignoreCannotSet = ignore]

Option(opt, ex, ignore) == [opt |-> opt, extractor |-> ex, ignore |-> ignore]

RECURSIVE ApplyOptions(_, _)
ApplyOptions(r, options) ==
    IF options = <<>> THEN r
    ELSE LET o == Head(options)
             r1 == CASE o.opt = "WithBasicDefaulters" -> WithBasicDefaulters(r)
                     [] o.opt = "WithDefaultExtractor" -> WithDefaultExtractor(r, o.extractor)
                     [] o.opt = "WithIgnoreCannotSet" -> WithIgnoreCannotSet(r, o.ignore)
         IN  ApplyOptions(r1, Tail(options))

\* NewDefaulterRegistry(options...): an empty registry, the options in
\* order, then every kind's sequence sorted.
NewDefaulterRegistry(options) ==
    LET r == ApplyOptions(Registry([k \in AllKinds |-> <<>>], NilExtractor, FALSE), options)
    IN  [r EXCEPT !.defaulters = [k \in AllKinds |-> sortDefaulters(r.defaulters[k])]]

\* len(r.defaulters): the kinds that have an entry in the map.
NumKinds(ds) == Cardinality({k \in AllKinds : ds[k] # <<>>})

-----------------------------------------------------------------------------
(* The cycle detector *)

RECURSIVE detectPotentialCyclesNoDelete(_, _)
RECURSIVE detectFieldsNoDelete(_, _, _)

\* detectPotentialCycles without the deferred delete: what was seen stays seen.
detectPotentialCyclesNoDelete(t, seen) ==
    LET t1 == IF Kind(t) = "ptr" THEN Elem(t) ELSE t
    IN  IF t1 \in seen THEN [cycle |-> TRUE, seen |-> seen]
        ELSE IF Kind(t1) # "struct" THEN [cycle |-> FALSE, seen |-> seen]
        ELSE detectFieldsNoDelete(t1, 1, seen \cup {t1})

detectFieldsNoDelete(t, i, seen) ==
    IF i > NumField(t) THEN [cycle |-> FALSE, seen |-> seen]
    ELSE LET r == detectPotentialCyclesNoDelete(TypeFields(t)[i].type, seen)
         IN  IF r.cycle THEN r ELSE detectFieldsNoDelete(t, i + 1, r.seen)

RECURSIVE detectPotentialCycles(_, _)
RECURSIVE detectFields(_, _, _)

\* detectPotentialCycles(t, seen): the answer, and the map seen as the call
\* leaves it (the deferred delete has run).
detectPotentialCycles(t, seen) ==
    LET t1 == IF Kind(t) = "ptr" THEN Elem(t) ELSE t
    IN  IF t1 \in seen THEN [cycle |-> TRUE, seen |-> seen]
        ELSE IF Kind(t1) # "struct" THEN [cycle |-> FALSE, seen |-> seen]
        ELSE LET r == detectFields(t1, 1, seen \cup {t1})
             IN  [cycle |-> r.cycle, seen |-> r.seen \ {t1}]

\* The loop of detectPotentialCycles over the fields, from field i on.
detectFields(t, i, seen) ==
    IF i > NumField(t) THEN [cycle |-> FALSE, seen |-> seen]
    ELSE LET r == detectPotentialCycles(TypeFields(t)[i].type, seen)
         IN  IF r.cycle THEN r ELSE detectFields(t, i + 1, r.seen)

-----------------------------------------------------------------------------
(* The defaulters *)

\* What HandleField hands back: callNext, set, err, and the heap it left.
Handled(callNext, set, e, h) == [callNext |-> callNext, set |-> set, err |-> e, heap |-> h]

\* The shared ending of the bundled defaulters: allocate behind a nil
\* pointer, then set the pointee; or set the field itself.
SetThrough(h, ref, v) ==
    IF Kind(ref.type) = "ptr"
    THEN IF Load(h, ref) = 0
         THEN Append(Store(h, ref, Len(h) + 1), [type |-> Elem(ref.type), val |-> v])
         ELSE [h EXCEPT ![Load(h, ref)].val = v]
    ELSE Store(h, ref, v)

\* The kind switch of IntDefaulter and UintDefaulter: the bitSize parsed with.
BitSize(kind) ==
    CASE kind \in {"int", "uint"} -> 0
      [] kind \in {"int8", "uint8"} -> 8
      [] kind \in {"int16", "uint16"} -> 16
      [] kind \in {"int32", "uint32"} -> 32
      [] kind \in {"int64", "uint64"} -> 64

\* field.Type.Kind(), looking through one pointer.
EffectiveKind(t) == IF Kind(t) = "ptr" THEN Kind(Elem(t)) ELSE Kind(t)

\* StringDefaulter.HandleField
StringHandleField(d, value, path, field, ref, h) ==
    Handled(TRUE, TRUE, NoErr, SetThrough(h, ref, value))

\* BoolDefaulter.HandleField
BoolHandleField(d, value, path, field, ref, h) ==
    IF value = T_true THEN Handled(TRUE, TRUE, NoErr, SetThrough(h, ref, TRUE))
    ELSE IF value = <<"f", "a", "l", "s", "e">>
         THEN Handled(TRUE, TRUE, NoErr, SetThrough(h, ref, FALSE))
         ELSE Handled(TRUE, FALSE,
                      NewError(d.name, ErrInvalidDefaultValue, path, field,
                               "invalid boolean value (not 'true' nor 'false')"), h)

\* IntDefaulter.HandleField
IntHandleField(d, value, path, field, ref, h) ==
    LET r == ParseInt(value, BitSize(EffectiveKind(field.type)))
    IN  IF ~r.ok
        THEN Handled(TRUE, FALSE, NewError(d.name, ErrInvalidDefaultValue, path, field, r.why), h)
        ELSE Handled(TRUE, TRUE, NoErr, SetThrough(h, ref, r.val))

\* UintDefaulter.HandleField
UintHandleField(d, value, path, field, ref, h) ==
    LET r == ParseUint(value, BitSize(EffectiveKind(field.type)))
    IN  IF ~r.ok
        THEN Handled(TRUE, FALSE, NewError(d.name, ErrInvalidDefaultValue, path, field, r.why), h)
        ELSE Handled(TRUE, TRUE, NoErr, SetThrough(h, ref, r.val))

\* DurationDefaulter.HandleField
DurationHandleField(d, value, path, field, ref, h) ==
    LET r == ParseDuration(value)
    IN  IF ~r.ok
        THEN Handled(TRUE, FALSE, NewError(d.name, ErrInvalidDefaultValue, path, field, r.why), h)
        ELSE Handled(TRUE, TRUE, NoErr, SetThrough(h, ref, r.val))

\* strconv.ParseBool
ParseBool(s) ==
    IF s \in {<<"1">>, <<"t">>, <<"T">>, <<"T", "R", "U", "E">>, T_true, <<"T", "r", "u", "e">>}
    THEN [ok |-> TRUE, val |-> TRUE, why |-> ""]
    ELSE IF s \in {<<"0">>, <<"f">>, <<"F">>, <<"F", "A", "L", "S", "E">>,
                   <<"f", "a", "l", "s", "e">>, <<"F", "a", "l", "s", "e">>}
         THEN [ok |-> TRUE, val |-> FALSE, why |-> ""]
         ELSE [ok |-> FALSE, val |-> FALSE, why |-> "invalid syntax"]

\* strconv.ParseFloat(s, 64) on plain decimals: an optional sign, digits,
\* and up to three digits behind a point. A float is kept as its count of
\* thousandths.
ParseFloat(s) ==
    LET neg == s # <<>> /\ Head(s) = "-"
        body == IF s # <<>> /\ Head(s) \in {"+", "-"} THEN Tail(s) ELSE s
        w == ReadDigits(body, 0, 0, FALSE)
        pointed == w.rest # <<>> /\ Head(w.rest) = "."
        f == ReadDigits(IF pointed THEN Tail(w.rest) ELSE <<>>, 0, 0, FALSE)
        scale == CASE f.n = 0 -> 1000 [] f.n = 1 -> 100 [] f.n = 2 -> 10 [] OTHER -> 1
        val == w.val * 1000 + f.val * scale
    IN  IF \/ w.n + f.n = 0
           \/ (~pointed /\ w.rest # <<>>)
           \/ (pointed /\ f.rest # <<>>)
           \/ f.n > 3
        THEN [ok |-> FALSE, val |-> 0, why |-> "invalid syntax"]
        ELSE IF w.big \/ w.val > 1000000
             THEN [ok |-> FALSE, val |-> 0, why |-> "value out of range"]
             ELSE [ok |-> TRUE, val |-> IF neg THEN 0 - val ELSE val, why |-> ""]

\* FloatDefaulter.HandleField
FloatHandleField(d, value, path, field, ref, h) ==
    LET r == ParseFloat(value)
    IN  IF ~r.ok
        THEN Handled(TRUE, FALSE, NewError(d.name, ErrInvalidDefaultValue, path, field, r.why), h)
        ELSE Handled(TRUE, TRUE, NoErr, SetThrough(h, ref, r.val))

\* reflect.Value.Convert of a 64-bit number to an integer kind: the low
\* bits of the kind's width, read with or without sign.
ConvertInt(v, kind) ==
    LET w == BitSize(kind)
    IN  IF w \notin {8, 16} THEN v
        ELSE IF kind \in UintKinds THEN v % Pow2(w)
        ELSE ((v + Pow2(w - 1)) % Pow2(w)) - Pow2(w - 1)

\* The low 32 bits of hi * 2^16 + lo, read with sign.
Low32(hi, lo) ==
    IF (hi % Pow2(16)) >= Pow2(15) THEN ((hi % Pow2(16)) - Pow2(16)) * Pow2(16) + lo
    ELSE (hi % Pow2(16)) * Pow2(16) + lo

\* strconv.ParseInt(value, 10, 64) and Convert to int32: the number read in
\* two halves, its low 32 bits read with sign; the negative of the least
\* int32 is itself.
ConvertToInt32(value) ==
    LET neg == value # <<>> /\ Head(value) = "-"
        body == IF value # <<>> /\ Head(value) \in {"+", "-"} THEN Tail(value) ELSE value
        w == ReadWide(body, 0, 0, FALSE)
    IN  IF body = <<>> \/ ReadDigits(body, 0, 0, FALSE).rest # <<>>
        THEN [ok |-> FALSE, val |-> 0, why |-> "invalid syntax"]
        ELSE IF w.big THEN [ok |-> FALSE, val |-> 0, why |-> "value out of range"]
        ELSE [ok |-> TRUE,
              val |-> IF ~neg \/ ((w.hi % Pow2(16)) = Pow2(15) /\ w.lo = 0) THEN Low32(w.hi, w.lo)
                      ELSE 0 - Low32(w.hi, w.lo),
              why |-> ""]

\* strconv.ParseUint(value, 10, 64) and Convert to uint32: the low 32 bits.
ConvertToUint32(value) ==
    LET w == ReadWide(value, 0, 0, FALSE)
    IN  IF value = <<>> \/ ReadDigits(value, 0, 0, FALSE).rest # <<>>
        THEN [ok |-> FALSE, val |-> 0, why |-> "invalid syntax"]
        ELSE IF w.big THEN [ok |-> FALSE, val |-> 0, why |-> "value out of range"]
        ELSE [ok |-> TRUE, val |-> (w.hi % Pow2(16)) * Pow2(16) + w.lo, why |-> ""]

\* convertValue that checks an integer against the width of its kind.
convertValueChecked(value, fieldType) ==
    LET k == Kind(fieldType)
    IN  CASE k = "bool" -> ParseBool(value)
          [] k \in IntKinds -> ParseInt(value, BitSize(k))
          [] k \in UintKinds -> ParseUint(value, BitSize(k))
          [] k \in FloatKinds -> ParseFloat(value)
          [] k = "string" -> [ok |-> TRUE, val |-> value, why |-> ""]
          [] OTHER -> [ok |-> FALSE, val |-> Zero(fieldType), why |-> "unsupported type"]

\* convertValue(value, fieldType)
convertValue(value, fieldType) ==
    LET k == Kind(fieldType)
    IN  CASE k = "bool" -> ParseBool(value)
          [] k = "int32" -> ConvertToInt32(value)
          [] k = "uint32" -> ConvertToUint32(value)
          [] k \in IntKinds ->
               LET i == ParseInt(value, 64) IN [i EXCEPT !.val = ConvertInt(i.val, k)]
          [] k \in UintKinds ->
               LET u == ParseUint(value, 64) IN [u EXCEPT !.val = ConvertInt(u.val, k)]
          [] k \in FloatKinds -> ParseFloat(value)
          [] k = "string" -> [ok |-> TRUE, val |-> value, why |-> ""]
          [] OTHER -> [ok |-> FALSE, val |-> Zero(fieldType), why |-> "unsupported type"]

\* The slice loop taking the parts back to front.
RECURSIVE ConvertPartsReversed(_, _, _)
ConvertPartsReversed(parts, elemType, done) ==
    IF parts = <<>> THEN [ok |-> TRUE, vals |-> done, why |-> ""]
    ELSE LET v == convertValue(Head(parts), elemType)
         IN  IF ~v.ok THEN [ok |-> FALSE, vals |-> done, why |-> v.why]
             ELSE ConvertPartsReversed(Tail(parts), elemType, <<v.val>> \o done)

\* The loop of SliceDefaulter.HandleField over the parts, up to the first
\* part that does not convert.
RECURSIVE ConvertParts(_, _, _)
ConvertParts(parts, elemType, done) ==
    IF parts = <<>> THEN [ok |-> TRUE, vals |-> done, why |-> ""]
    ELSE LET v == convertValue(Head(parts), elemType)
         IN  IF ~v.ok THEN [ok |-> FALSE, vals |-> done, why |-> v.why]
             ELSE ConvertParts(Tail(parts), elemType, Append(done, v.val))

\* SliceDefaulter.HandleField; reflect.MakeSlice panics when field.Type is
\* not a slice type.
SliceHandleField(d, value, path, field, ref, h) ==
    IF Kind(field.type) # "slice"
    THEN Handled(FALSE, FALSE, Panic("reflect.MakeSlice of non-slice type"), h)
    ELSE LET r == ConvertParts(Fields(value), Elem(field.type), <<>>)
         IN  IF ~r.ok
             THEN Handled(TRUE, FALSE,
                          NewError(d.name, ErrInvalidDefaultValueItem, path, field, r.why), h)
             ELSE Handled(TRUE, TRUE, NoErr, Store(h, ref, [nil |-> FALSE, elems |-> r.vals]))

\* mapInstance.SetMapIndex(key, value)
SetMapIndex(pairs, key, value) == {p \in pairs : p[1] # key} \cup {<<key, value>>}

\* The loop of MapDefaulter.HandleField over the pairs, up to the first
\* key or value that does not convert; a pair without a colon is passed over.
RECURSIVE ConvertPairs(_, _, _, _)
ConvertPairs(pairs, keyType, valueType, done) ==
    IF pairs = <<>> THEN [ok |-> TRUE, pairs |-> done, code |-> "", why |-> ""]
    ELSE LET kv == Cut2(Head(pairs), <<":">>, <<>>)
         IN  IF Len(kv) # 2 THEN ConvertPairs(Tail(pairs), keyType, valueType, done)
             ELSE LET key == convertValue(kv[1], keyType)
                      value == convertValue(kv[2], valueType)
                  IN  IF ~key.ok
                      THEN [ok |-> FALSE, pairs |-> done, code |-> ErrInvalidDefaultValueKey,
                            why |-> key.why]
                      ELSE IF ~value.ok
                           THEN [ok |-> FALSE, pairs |-> done, code |-> ErrInvalidDefaultValueItem,
                                 why |-> value.why]
                           ELSE ConvertPairs(Tail(pairs), keyType, valueType,
                                             SetMapIndex(done, key.val, value.val))

\* MapDefaulter.HandleField that writes the pairs it has when one fails.
MapHandleFieldKeepsPairs(d, value, path, field, ref, h) ==
    IF Kind(field.type) # "map"
    THEN Handled(FALSE, FALSE, Panic("reflect.MakeMapWithSize of non-map type"), h)
    ELSE LET r == ConvertPairs(Fields(value), Key(field.type), Elem(field.type), {})
         IN  IF ~r.ok
             THEN Handled(TRUE, FALSE, NewError(d.name, r.code, path, field, r.why),
                          Store(h, ref, [nil |-> FALSE, pairs |-> r.pairs]))
             ELSE Handled(TRUE, TRUE, NoErr, Store(h, ref, [nil |-> FALSE, pairs |-> r.pairs]))

\* MapDefaulter.HandleField; reflect.MakeMap panics when field.Type is not
\* a map type.
MapHandleField(d, value, path, field, ref, h) ==
    IF Kind(field.type) # "map"
    THEN Handled(FALSE, FALSE, Panic("reflect.MakeMapWithSize of non-map type"), h)
    ELSE LET r == ConvertPairs(Fields(value), Key(field.type), Elem(field.type), {})
         IN  IF ~r.ok
             THEN Handled(TRUE, FALSE, NewError(d.name, r.code, path, field, r.why), h)
             ELSE Handled(TRUE, TRUE, NoErr, Store(h, ref, [nil |-> FALSE, pairs |-> r.pairs]))

\* customDefaulter.HandleField of the tests; SetBool panics on a field that
\* is not of kind bool.
CustomHandleField(d, value, path, field, ref, h) ==
    IF value = T_yay
    THEN IF Kind(ref.type) = "bool" THEN Handled(FALSE, TRUE, NoErr, Store(h, ref, TRUE))
         ELSE Handled(FALSE, FALSE, Panic("reflect: call of reflect.Value.SetBool on ptr Value"), h)
    ELSE Handled(TRUE, FALSE, NoErr, h)

\* The value a stand-in defaulter writes when it sets the field.
Sample(kind) ==
    CASE kind = "bool" -> TRUE
      [] kind = "string" -> T_bar
      [] OTHER -> 7

\* A stand-in for any Defaulter a caller registers: it answers (callNext,
\* set, err) as it was built to, and writes the field exactly when set.
StubHandleField(d, value, path, field, ref, h) ==
    Handled(d.callNext, d.set,
            IF d.fails THEN NewError(d.name, ErrInvalidDefaultValue, path, field, "stub") ELSE NoErr,
            IF d.set THEN SetThrough(h, ref, Sample(EffectiveKind(field.type))) ELSE h)

\* Defaulter.HandleField(value, path, field, fieldValue), by dynamic type.
HandleField(d, value, path, field, ref, h) ==
    CASE d.name = "defaultz.StringDefaulter" -> StringHandleField(d, value, path, field, ref, h)
      [] d.name = "defaultz.BoolDefaulter" -> BoolHandleField(d, value, path, field, ref, h)
      [] d.name = "defaultz.IntDefaulter" -> IntHandleField(d, value, path, field, ref, h)
      [] d.name = "defaultz.UintDefaulter" -> UintHandleField(d, value, path, field, ref, h)
      [] d.name = "defaultz.DurationDefaulter" -> DurationHandleField(d, value, path, field, ref, h)
      [] d.name = "defaultz.FloatDefaulter" -> FloatHandleField(d, value, path, field, ref, h)
      [] d.name = "defaultz.SliceDefaulter" -> SliceHandleField(d, value, path, field, ref, h)
      [] d.name = "defaultz.MapDefaulter" -> MapHandleField(d, value, path, field, ref, h)
      [] d.name = "test.customDefaulter" -> CustomHandleField(d, value, path, field, ref, h)
      [] OTHER -> StubHandleField(d, value, path, field, ref, h)

-----------------------------------------------------------------------------
(* The walk *)

\* One thing a call did: op is "alloc" (a nil pointer to a struct was
\* initialised), "extract" (the extractor was asked) or "handle" (a
\* defaulter's HandleField was called, with what it answered); at is the
\* field's storage, the address of its cell followed by the way down.
Event(op, ref, who, callNext, set, failed) ==
    [op |-> op, at |-> <<ref.addr>> \o ref.path, who |-> who,
     callNext |-> callNext, set |-> set, failed |-> failed]

\* The state a call threads through its steps.
Walk(h, l, e) == [heap |-> h, log |-> l, err |-> e]

Fail(st, e) == [st EXCEPT !.err = e]

\* addFieldToPath that keeps the path of the root.
addFieldToPathOfRoot(path, field) == path

\* addFieldToPath(path, field)
addFieldToPath(path, field) == Append(path, field.name)

\* What the loop over the defaulters carries: the walk, the errors
\* collected so far, and whether something was set.
Chain(st, result, somethingSet) == [st |-> st, result |-> result, somethingSet |-> somethingSet]

\* The walk after one HandleField call answered h: the heap it left, the
\* call noted, and the panic if it ended in one.
AfterHandle(st, fv, defaulter, h) ==
    Walk(h.heap,
         Append(st.log, Event("handle", fv, defaulter.name, h.callNext, h.set, h.err # NoErr)),
         IF h.err.code = "panic" THEN h.err ELSE st.err)

RECURSIVE RunChain(_, _, _, _, _, _, _, _, _)

\* The body of the loop without the break: the next defaulter is called
\* whatever this one answered.
ChainStepNoBreak(ds, j, value, path, field, fv, c, h) ==
    IF h.err.code = "panic"
    THEN Chain(AfterHandle(c.st, fv, ds[j].Defaulter, h), c.result, c.somethingSet)
    ELSE RunChain(ds, j + 1, value, path, field, fv,
                  AfterHandle(c.st, fv, ds[j].Defaulter, h),
                  IF h.err # NoErr THEN Append(c.result, h.err) ELSE c.result,
                  c.somethingSet \/ h.set)

\* The body of the loop over the defaulters, for the j-th of them, which
\* answered h: collect its error, note what it set, go on if it says so.
ChainStep(ds, j, value, path, field, fv, c, h) ==
    IF h.err.code = "panic" \/ ~h.callNext
    THEN Chain(AfterHandle(c.st, fv, ds[j].Defaulter, h),
               IF h.err # NoErr THEN Append(c.result, h.err) ELSE c.result,
               c.somethingSet \/ h.set)
    ELSE RunChain(ds, j + 1, value, path, field, fv,
                  AfterHandle(c.st, fv, ds[j].Defaulter, h),
                  IF h.err # NoErr THEN Append(c.result, h.err) ELSE c.result,
                  c.somethingSet \/ h.set)

\* The loop over the defaulters of the field's kind, from the j-th on.
RunChain(ds, j, value, path, field, fv, st, result, somethingSet) ==
    IF j > Len(ds) THEN Chain(st, result, somethingSet)
    ELSE ChainStep(ds, j, value, path, field, fv, Chain(st, result, somethingSet),
                   HandleField(ds[j].Defaulter, value, path, field, fv, st.heap))

\* The decision after the chain taken on the collected errors alone.
AfterChainAnyError(c) ==
    IF c.st.err # NoErr THEN c.st
    ELSE IF c.result # <<>> THEN Fail(c.st, ErrFailedToApply(c.result))
    ELSE c.st

\* What follows the chain: an error when nothing was set and errors were collected.
AfterChain(c) ==
    IF c.st.err # NoErr THEN c.st
    ELSE IF ~c.somethingSet /\ c.result # <<>> THEN Fail(c.st, ErrFailedToApply(c.result))
    ELSE c.st

RECURSIVE DoApplyDefaults(_, _, _, _)
RECURSIVE WalkFields(_, _, _, _, _)
RECURSIVE FieldValue(_, _, _, _, _)

\* NewError(nil, ErrNotSupported, path, field,
\*          fmt.Sprintf("no defaulters found for kind '%s'", kind))
NoDefaultersFound(path, field) ==
    [NewError("", ErrNotSupported, path, field, "no defaulters found for kind '%s'")
        EXCEPT !.args = <<EffectiveKind(field.type)>>]

\* The loop body with a field whose kind has no defaulters passed over.
ExtractedNoChainSkipped(r, st, fv, field, path, x) ==
    IF x.err # NoErr
    THEN Fail(st, NewError("", ErrCannotExtractDefault, path, field, x.err.code))
    ELSE IF ~x.found THEN st
    ELSE IF Kind(field.type) = "ptr" /\ Kind(Elem(field.type)) = "ptr"
         THEN Fail(st, NewError("", ErrNotSupported, path, field, "pointer to pointer is not allowed"))
    ELSE IF r.defaulters[EffectiveKind(field.type)] # <<>>
         THEN IF ~CanSet(fv)
              THEN IF r.ignoreCannotSet THEN st
                   ELSE Fail(st, NewError("", ErrCannotSetField, path, field, "cannot set field"))
              ELSE AfterChain(RunChain(r.defaulters[EffectiveKind(field.type)], 1, x.value, path,
                                       field, fv, st, <<>>, FALSE))
         ELSE st

\* The loop body with the chain run on fields that cannot be set.
ExtractedNoCanSet(r, st, fv, field, path, x) ==
    IF x.err # NoErr
    THEN Fail(st, NewError("", ErrCannotExtractDefault, path, field, x.err.code))
    ELSE IF ~x.found THEN st
    ELSE IF Kind(field.type) = "ptr" /\ Kind(Elem(field.type)) = "ptr"
         THEN Fail(st, NewError("", ErrNotSupported, path, field, "pointer to pointer is not allowed"))
    ELSE IF r.defaulters[EffectiveKind(field.type)] # <<>>
         THEN IF ~CanSet(fv) /\ r.ignoreCannotSet THEN st
              ELSE AfterChain(RunChain(r.defaulters[EffectiveKind(field.type)], 1, x.value, path,
                                       field, fv, st, <<>>, FALSE))
         ELSE Fail(st, NoDefaultersFound(path, field))

\* The loop body with an error of the extractor passed over.
ExtractedErrorSkipped(r, st, fv, field, path, x) ==
    IF x.err # NoErr \/ ~x.found THEN st
    ELSE IF Kind(field.type) = "ptr" /\ Kind(Elem(field.type)) = "ptr"
         THEN Fail(st, NewError("", ErrNotSupported, path, field, "pointer to pointer is not allowed"))
    ELSE IF r.defaulters[EffectiveKind(field.type)] # <<>>
         THEN IF ~CanSet(fv)
              THEN IF r.ignoreCannotSet THEN st
                   ELSE Fail(st, NewError("", ErrCannotSetField, path, field, "cannot set field"))
              ELSE AfterChain(RunChain(r.defaulters[EffectiveKind(field.type)], 1, x.value, path,
                                       field, fv, st, <<>>, FALSE))
         ELSE Fail(st, NoDefaultersFound(path, field))

\* The loop body without the test for pointers to pointers.
ExtractedNoPointerTest(r, st, fv, field, path, x) ==
    IF x.err # NoErr
    THEN Fail(st, NewError("", ErrCannotExtractDefault, path, field, x.err.code))
    ELSE IF ~x.found THEN st
    ELSE IF r.defaulters[EffectiveKind(field.type)] # <<>>
         THEN IF ~CanSet(fv)
              THEN IF r.ignoreCannotSet THEN st
                   ELSE Fail(st, NewError("", ErrCannotSetField, path, field, "cannot set field"))
              ELSE AfterChain(RunChain(r.defaulters[EffectiveKind(field.type)], 1, x.value, path,
                                       field, fv, st, <<>>, FALSE))
         ELSE Fail(st, NoDefaultersFound(path, field))

\* The loop body of DoApplyDefaults once the extractor answered x: reject
\* pointers to pointers, find the chain of the field's kind, run it.
Extracted(r, st, fv, field, path, x) ==
    IF x.err # NoErr
    THEN Fail(st, NewError("", ErrCannotExtractDefault, path, field, x.err.code))
    ELSE IF ~x.found THEN st
    ELSE IF Kind(field.type) = "ptr" /\ Kind(Elem(field.type)) = "ptr"
         THEN Fail(st, NewError("", ErrNotSupported, path, field, "pointer to pointer is not allowed"))
    ELSE IF r.defaulters[EffectiveKind(field.type)] # <<>>
         THEN IF ~CanSet(fv)
              THEN IF r.ignoreCannotSet THEN st
                   ELSE Fail(st, NewError("", ErrCannotSetField, path, field, "cannot set field"))
              ELSE AfterChain(RunChain(r.defaulters[EffectiveKind(field.type)], 1, x.value, path,
                                       field, fv, st, <<>>, FALSE))
         ELSE Fail(st, NoDefaultersFound(path, field))

\* The call of the extractor, noted in the log.
Extract(r, st, fv, field, path, x) ==
    Extracted(r, [st EXCEPT !.log = Append(@, Event("extract", fv, "", FALSE, FALSE, x.err # NoErr))],
              fv, field, path, x)

\* The part of the loop body of DoApplyDefaults behind the zero check.
DefaultField(r, st, fv, field, path) ==
    Extract(r, st, fv, field, path, ExtractDefault(r.extractor, field))

\* fieldValue.Set(reflect.New(field.Type.Elem())) on a nil pointer to a struct.
InitPointer(st, fv, field) ==
    Walk(Append(Store(st.heap, fv, Len(st.heap) + 1), NewCell(Elem(field.type))),
         Append(st.log, Event("alloc", fv, "", FALSE, FALSE, FALSE)),
         st.err)

\* The descent into the struct a pointer field points to.
Descend(r, st, fv, field, path) ==
    DoApplyDefaults(r, st, ElemRef(st.heap, fv), addFieldToPath(path, field))

\* The walk of the second record of an array once the first is done.
SecondOfArray(r, st1, fv, field, path) ==
    IF st1.err # NoErr THEN st1
    ELSE DoApplyDefaults(r, st1, Ref(fv.addr, Append(fv.path, 2), Elem(fv.type), fv.sticky, fv.embed),
                         addFieldToPath(path, field))

\* FieldValue that goes into the records of an array as it goes into a record.
FieldValueIntoArrays(r, st, fv, field, path) ==
    IF Kind(fv.type) = "struct"
    THEN DoApplyDefaults(r, st, fv, addFieldToPath(path, field))
    ELSE IF Kind(fv.type) = "array" /\ Kind(Elem(fv.type)) = "struct"
    THEN SecondOfArray(r, DoApplyDefaults(r, st, Ref(fv.addr, Append(fv.path, 1), Elem(fv.type),
                                                   fv.sticky, fv.embed),
                                          addFieldToPath(path, field)),
                       fv, field, path)
    ELSE IF Kind(fv.type) = "ptr" /\ Kind(Elem(field.type)) = "struct"
    THEN IF Load(st.heap, fv) = 0
         THEN IF ~CanSet(fv)
              THEN Fail(st, Panic("reflect.Value.Set using value obtained using unexported field"))
              ELSE Descend(r, InitPointer(st, fv, field), fv, field, path)
         ELSE Descend(r, st, fv, field, path)
    ELSE IF ~IsZero(fv.type, Load(st.heap, fv)) THEN st
    ELSE DefaultField(r, st, fv, field, path)

\* FieldValue that takes a struct and a pointer to a struct as it takes any
\* other field, without going into them.
FieldValueRecordsDefaulted(r, st, fv, field, path) ==
    IF ~IsZero(fv.type, Load(st.heap, fv)) THEN st
    ELSE DefaultField(r, st, fv, field, path)

\* FieldValue without the zero check: a field that holds a value is defaulted too.
FieldValueNoZeroCheck(r, st, fv, field, path) ==
    IF Kind(fv.type) = "struct"
    THEN DoApplyDefaults(r, st, fv, addFieldToPath(path, field))
    ELSE IF Kind(fv.type) = "ptr" /\ Kind(Elem(field.type)) = "struct"
    THEN IF Load(st.heap, fv) = 0
         THEN IF ~CanSet(fv)
              THEN Fail(st, Panic("reflect.Value.Set using value obtained using unexported field"))
              ELSE Descend(r, InitPointer(st, fv, field), fv, field, path)
         ELSE Descend(r, st, fv, field, path)
    ELSE DefaultField(r, st, fv, field, path)

\* FieldValue with a nil pointer to a struct left nil and not gone into.
FieldValueNoInit(r, st, fv, field, path) ==
    IF Kind(fv.type) = "struct"
    THEN DoApplyDefaults(r, st, fv, addFieldToPath(path, field))
    ELSE IF Kind(fv.type) = "ptr" /\ Kind(Elem(field.type)) = "struct"
    THEN IF Load(st.heap, fv) = 0 THEN st ELSE Descend(r, st, fv, field, path)
    ELSE IF ~IsZero(fv.type, Load(st.heap, fv)) THEN st
    ELSE DefaultField(r, st, fv, field, path)

\* FieldValue with the nil check of the pointer dropped: a pointer to a
\* struct is initialised whenever the walk comes by.
FieldValueAlwaysInit(r, st, fv, field, path) ==
    IF Kind(fv.type) = "struct"
    THEN DoApplyDefaults(r, st, fv, addFieldToPath(path, field))
    ELSE IF Kind(fv.type) = "ptr" /\ Kind(Elem(field.type)) = "struct"
    THEN IF ~CanSet(fv)
         THEN Fail(st, Panic("reflect.Value.Set using value obtained using unexported field"))
         ELSE Descend(r, InitPointer(st, fv, field), fv, field, path)
    ELSE IF ~IsZero(fv.type, Load(st.heap, fv)) THEN st
    ELSE DefaultField(r, st, fv, field, path)

\* The loop body of DoApplyDefaults for the field with value fv: descend
\* into a struct or behind a pointer to one, skip what holds a value,
\* default the rest.
FieldValue(r, st, fv, field, path) ==
    IF Kind(fv.type) = "struct"
    THEN DoApplyDefaults(r, st, fv, addFieldToPath(path, field))
    ELSE IF Kind(fv.type) = "ptr" /\ Kind(Elem(field.type)) = "struct"
    THEN IF Load(st.heap, fv) = 0
         THEN IF ~CanSet(fv)
              THEN Fail(st, Panic("reflect.Value.Set using value obtained using unexported field"))
              ELSE Descend(r, InitPointer(st, fv, field), fv, field, path)
         ELSE Descend(r, st, fv, field, path)
    ELSE IF ~IsZero(fv.type, Load(st.heap, fv)) THEN st
    ELSE DefaultField(r, st, fv, field, path)

\* field := fieldType.Field(i); fieldValue := value.Field(i)
FieldStep(r, st, v, i, path) == FieldValue(r, st, FieldRef(v, i), TypeFields(v.type)[i], path)

\* The end of one pass of the loop with the error of the field set aside:
\* the loop goes on to the next field.
NextFieldAfterError(r, st1, v, i, path) ==
    IF st1.err.code = "panic" THEN st1
    ELSE IF st1.err # NoErr
    THEN Fail(WalkFields(r, Walk(st1.heap, st1.log, NoErr), v, i + 1, path), st1.err)
    ELSE WalkFields(r, st1, v, i + 1, path)

\* The end of one pass of the loop: the first error ends the walk.
NextField(r, st1, v, i, path) ==
    IF st1.err # NoErr THEN st1 ELSE WalkFields(r, st1, v, i + 1, path)

\* The loop of DoApplyDefaults from field i on.
WalkFields(r, st, v, i, path) ==
    IF i > NumField(v.type) THEN st
    ELSE NextField(r, FieldStep(r, st, v, i, path), v, i, path)

\* The start of DoApplyDefaults: the value, looked at through a pointer;
\* address 0 stands for the invalid Value behind a nil pointer.
Dereference(h, value) ==
    IF Kind(value.type) # "ptr" THEN value
    ELSE IF Load(h, value) = 0 THEN Ref(0, <<>>, <<>>, value.sticky, value.embed)
    ELSE ElemRef(h, value)

\* DoApplyDefaults once the registry was found usable: only structs are walked.
WalkStruct(r, st, v, path) == IF Kind(v.type) # "struct" THEN st ELSE WalkFields(r, st, v, 1, path)

\* DoApplyDefaults without the check that defaulters are registered.
DoApplyDefaultsNoCount(r, st, value, path) ==
    IF r.extractor.kind = "nil" THEN Fail(st, ErrNoExtractor)
    ELSE WalkStruct(r, st, Dereference(st.heap, value), path)

\* defaulterRegistry.DoApplyDefaults(value, path)
DoApplyDefaults(r, st, value, path) ==
    IF r.extractor.kind = "nil" THEN Fail(st, ErrNoExtractor)
    ELSE IF NumKinds(r.defaulters) = 0 THEN Fail(st, ErrNoDefaulters)
    ELSE WalkStruct(r, st, Dereference(st.heap, value), path)

\* The interface value handed to ApplyDefaults: its dynamic type (<<>> for
\* the nil interface) and, for a pointer, the address it holds.
Arg(type, val) == [type |-> type, val |-> val]

\* The check of the argument without the look behind the pointer.
InvalidInputPointerOnly(a) ==
    \/ Kind(a.type) # "ptr"
    \/ a.val = 0

\* val.Kind() != reflect.Ptr || val.Elem().Kind() != reflect.Struct
InvalidInput(a) ==
    \/ Kind(a.type) # "ptr"
    \/ a.val = 0
    \/ Kind(Elem(a.type)) # "struct"

\* The path the walk starts with.
RootPath(t) == IF TypeName(t) = "" THEN <<"<root>">> ELSE <<PkgPath(t), TypeName(t)>>

\* ApplyDefaults letting a type that refers to itself pass as done.
ApplyDefaultsOnCycleAccepted(r, h, a) ==
    IF InvalidInput(a) THEN Walk(h, <<>>, ErrInvalidInput)
    ELSE IF detectPotentialCycles(Elem(a.type), {}).cycle THEN Walk(h, <<>>, NoErr)
    ELSE DoApplyDefaults(r, Walk(h, <<>>, NoErr), Ref(a.val, <<>>, Elem(a.type), FALSE, FALSE),
                         RootPath(Elem(a.type)))

\* ApplyDefaults with the registry looked at before the argument.
ApplyDefaultsOnRegistryFirst(r, h, a) ==
    IF r.extractor.kind = "nil" THEN Walk(h, <<>>, ErrNoExtractor)
    ELSE IF NumKinds(r.defaulters) = 0 THEN Walk(h, <<>>, ErrNoDefaulters)
    ELSE IF InvalidInput(a) THEN Walk(h, <<>>, ErrInvalidInput)
    ELSE IF detectPotentialCycles(Elem(a.type), {}).cycle THEN Walk(h, <<>>, ErrCyclic)
    ELSE DoApplyDefaults(r, Walk(h, <<>>, NoErr), Ref(a.val, <<>>, Elem(a.type), FALSE, FALSE),
                         RootPath(Elem(a.type)))

\* defaulterRegistry.ApplyDefaults(obj): what it returns, the heap it leaves
\* and what it did.
ApplyDefaultsOn(r, h, a) ==
    IF InvalidInput(a) THEN Walk(h, <<>>, ErrInvalidInput)
    ELSE IF detectPotentialCycles(Elem(a.type), {}).cycle THEN Walk(h, <<>>, ErrCyclic)
    ELSE DoApplyDefaults(r, Walk(h, <<>>, NoErr), Ref(a.val, <<>>, Elem(a.type), FALSE, FALSE),
                         RootPath(Elem(a.type)))

-----------------------------------------------------------------------------
(* The records the calls are made on *)

Cell(t, v) == [type |-> t, val |-> v]

Input(a, h) == [arg |-> a, heap |-> h]

RECURSIVE SeqProduct(_)
SeqProduct(sets) ==
    IF sets = <<>> THEN {<<>>}
    ELSE {<<x>> \o rest : x \in Head(sets), rest \in SeqProduct(Tail(sets))}

\* The values of type t shaped like v: every bool, number, string and array
\* below v either zero or not, every pointer as v has it.
RECURSIVE Fills(_, _)
Fills(t, v) ==
    LET k == Kind(t)
    IN  CASE k = "bool" -> {FALSE, TRUE}
          [] k \in IntKinds \cup UintKinds \cup FloatKinds -> {0, 5}
          [] k = "string" -> {<<>>, <<"q">>}
          [] k = "array" -> IF Kind(Elem(t)) \in IntKinds THEN {Zero(t), <<0, 5>>} ELSE {v}
          [] k = "struct" -> SeqProduct([i \in 1..NumField(t) |-> Fills(TypeFields(t)[i].type, v[i])])
          [] OTHER -> {v}

HeapFills(h) == SeqProduct([i \in 1..Len(h) |-> {Cell(h[i].type, v) : v \in Fills(h[i].type, h[i].val)}])

\* A pointer to a record of type <<n>> in cell 1, every pointer in it nil.
PtrToZero(n) == Input(Arg(PtrTo(<<n>>), 1), <<Cell(<<n>>, Zero(<<n>>))>>)

\* The shapes of the valid, acyclic records.
RecordShapes ==
    <<PtrToZero("basic"), PtrToZero("Parent"), PtrToZero("Bad"), PtrToZero("pp"),
     PtrToZero("TestExportedWithUnexportedField"), PtrToZero("Hidden"),
     PtrToZero("HiddenArr"), PtrToZero("yay"), PtrToZero("nestedPointerCycle"),
     PtrToZero("Quiet"), PtrToZero("Untagged"), PtrToZero("ppDeep"), PtrToZero("ppPtr"),
     PtrToZero("Tx"), PtrToZero("TxPtr"), PtrToZero("Family"), PtrToZero("Wrong"),
     \* pp.Field already points somewhere
     Input(Arg(PtrTo(<<"pp">>), 1),
           <<Cell(<<"pp">>, <<2>>), Cell(PtrTo(<<"int">>), 3), Cell(<<"int">>, 0)>>),
     \* Parent.PChild and both PInt fields already point somewhere
     Input(Arg(PtrTo(<<"Parent">>), 1),
           <<Cell(<<"Parent">>, <<FALSE, <<0, 3>>, 2>>), Cell(<<"Child">>, <<0, 4>>),
             Cell(<<"int">>, 0), Cell(<<"int">>, 0)>>),
     \* Hidden.inner already points somewhere
     Input(Arg(PtrTo(<<"Hidden">>), 1),
           <<Cell(<<"Hidden">>, <<<<>>, 2, FALSE>>), Cell(<<"Leaf">>, <<FALSE>>)>>)>>

\* Records of the types that refer to themselves, nil-ended and closed into a ring.
CyclicShapes ==
    <<PtrToZero("directSelfCycle"), PtrToZero("cyclicParent1"),
     Input(Arg(PtrTo(<<"directSelfCycle">>), 1), <<Cell(<<"directSelfCycle">>, <<1>>)>>),
     Input(Arg(PtrTo(<<"cyclicParent1">>), 1), <<Cell(<<"cyclicParent1">>, <<FALSE, <<0, 1>>>>)>>)>>

\* What is not a non-nil pointer to a struct: the nil interface, a string,
\* a struct by value, a nil pointer (also of a type that refers to itself),
\* a pointer to an int, a pointer to a pointer.
InvalidShapes ==
    <<Input(Arg(<<>>, 0), <<>>),
     Input(Arg(<<"string">>, T_foo), <<>>),
     Input(Arg(<<"yay">>, Zero(<<"yay">>)), <<>>),
     Input(Arg(PtrTo(<<"basic">>), 0), <<>>),
     Input(Arg(PtrTo(<<"directSelfCycle">>), 0), <<>>),
     Input(Arg(PtrTo(<<"int">>), 1), <<Cell(<<"int">>, 0)>>),
     Input(Arg(PtrTo(PtrTo(<<"Leaf">>)), 1), <<Cell(PtrTo(<<"Leaf">>), 2), Cell(<<"Leaf">>, <<FALSE>>)>>)>>

Shapes == RecordShapes \o CyclicShapes \o InvalidShapes

-----------------------------------------------------------------------------
(* The state machine *)

\* The option lists NewDefaulterRegistry is called with.
OptionLists ==
    {<<>>,
     <<Option("WithBasicDefaulters", NilExtractor, FALSE)>>,
     <<Option("WithDefaultExtractor", extractorInstance, FALSE)>>,
     \* the package's instance
     <<Option("WithBasicDefaulters", NilExtractor, FALSE),
       Option("WithDefaultExtractor", extractorInstance, FALSE)>>,
     <<Option("WithBasicDefaulters", NilExtractor, FALSE),
       Option("WithDefaultExtractor", extractorInstance, FALSE),
       Option("WithIgnoreCannotSet", NilExtractor, TRUE)>>,
     \* a caller's extractor that fails at the fields named After
     <<Option("WithBasicDefaulters", NilExtractor, FALSE),
       Option("WithDefaultExtractor", StubExtractor("After"), FALSE)>>}

NoCall == [heap |-> <<>>, err |-> NoErr, log |-> <<>>]

InitWith(options, shapes) ==
    /\ types = DeclaredTypes
    /\ \E o \in options :
         LET r == NewDefaulterRegistry(o)
         IN  /\ defaulters = r.defaulters
             /\ extractor = r.extractor
             /\ ignoreCannotSet = r.ignoreCannotSet
    /\ \E i \in 1..Len(shapes) :
         /\ arg = shapes[i].arg
         /\ heap \in HeapFills(shapes[i].heap)
    /\ pre = heap
    /\ err = NoErr
    /\ log = <<>>
    /\ prev = NoCall
    /\ calls = 0
    /\ registered = 0
    /\ given = <<>>
    /\ answer = <<>>
    /\ running = <<>>

Init == InitWith(OptionLists, Shapes)

\* r.Register(priority, defaulter), while the registry is being built.
RegisterCall(priority, defaulter) ==
    /\ calls = 0
    /\ registered < MaxRegister
    /\ defaulters' = RegisterIn(defaulters, priority, defaulter)
    /\ registered' = registered + 1
    /\ UNCHANGED <<extractor, ignoreCannotSet, heap, arg, err, log, pre, prev, calls, given, answer,
                   running, types>>

\* d.Register(2000, customDefaulter{}) of the tests, and the same ahead of
\* the bundled defaulters.
Register == \E priority \in {500, 2000} : RegisterCall(priority, customDefaulter)

\* The call returned st: the record as the call left it, the error, and
\* the outcome of the call before when the two ran back to back.
Returned(st) ==
    /\ heap' = st.heap
    /\ err' = st.err
    /\ log' = st.log
    /\ pre' = heap
    /\ prev' = IF calls = 0 THEN NoCall ELSE [heap |-> heap, err |-> err, log |-> log]
    /\ calls' = IF calls < 2 THEN calls + 1 ELSE calls
    /\ UNCHANGED <<defaulters, extractor, ignoreCannotSet, arg, registered, given, answer, running,
                   types>>

\* r.ApplyDefaults(obj)
ApplyDefaults ==
    Returned(ApplyDefaultsOn(Registry(defaulters, extractor, ignoreCannotSet), heap, arg))

Next == Register \/ ApplyDefaults

Spec == Init /\ [][Next]_vars

-----------------------------------------------------------------------------
(* Chains of caller-registered defaulters *)

StubName(callNext, set, fails) ==
    CASE callNext /\ set /\ fails -> "stub.next.set.err"
      [] callNext /\ set /\ ~fails -> "stub.next.set"
      [] callNext /\ ~set /\ fails -> "stub.next.err"
      [] callNext /\ ~set /\ ~fails -> "stub.next"
      [] ~callNext /\ set /\ fails -> "stub.stop.set.err"
      [] ~callNext /\ set /\ ~fails -> "stub.stop.set"
      [] ~callNext /\ ~set /\ fails -> "stub.stop.err"
      [] ~callNext /\ ~set /\ ~fails -> "stub.stop"

\* The kinds a stand-in declares: all of them bool; the one that only
\* passes on also string and int64, the one that stops with an error also int64.
StubKinds(callNext, set, fails) ==
    IF callNext /\ ~set /\ ~fails THEN <<"bool", "string", "int64">>
    ELSE IF ~callNext /\ ~set /\ fails THEN <<"bool", "int64">>
    ELSE <<"bool">>

Stub(callNext, set, fails) ==
    Dft(StubName(callNext, set, fails), StubKinds(callNext, set, fails), callNext, set, fails)

\* r.Register(priority, d) for a stand-in d: ahead of the bundled
\* defaulters, level with the primitive ones, level with the last of them.
RegisterStub ==
    \E priority \in {500, PriorityPrimitiveDefaulter, PriorityOtherDefaulter} : \E c \in BOOLEAN, s \in BOOLEAN, f \in BOOLEAN :
        RegisterCall(priority, Stub(c, s, f))

ChainOptionLists ==
    {<<Option("WithDefaultExtractor", extractorInstance, FALSE)>>,
     <<Option("WithBasicDefaulters", NilExtractor, FALSE),
       Option("WithDefaultExtractor", extractorInstance, FALSE)>>}

ChainShapes == <<PtrToZero("yay"), PtrToZero("wait")>>

InitChain ==
    /\ InitWith(ChainOptionLists, ChainShapes)
    /\ IsZero(heap[1].type, heap[1].val)

NextChain == RegisterStub \/ ApplyDefaults

SpecChain == InitChain /\ [][NextChain]_vars

-----------------------------------------------------------------------------
(* Records with slices and maps *)

CollectionShapes ==
    <<PtrToZero("Seqs"), PtrToZero("SeqBlank"), PtrToZero("SeqBad"), PtrToZero("Durs"),
     PtrToZero("DurNums"), PtrToZero("Maps"), PtrToZero("MapBadKey"), PtrToZero("MapBadItem"),
     PtrToZero("MapBadBoth"), PtrToZero("Arrs"), PtrToZero("Ptrs"), PtrToZero("PtrSeq"),
     PtrToZero("PtrMap"),
     \* Arrs with a record in the array, one in the slice and one in the map
     \* whose Foo is empty
     Input(Arg(PtrTo(<<"Arrs">>), 1),
           <<Cell(<<"Arrs">>, <<<<>>, <<<<"q">>, <<<<>>>>>>, <<<<>>>>,
                              [nil |-> FALSE, elems |-> <<<<<<>>>>>>],
                              [nil |-> FALSE, pairs |-> {<<<<"k">>, <<<<>>>>>>}], FALSE>>)>>),
     \* Seqs.A and Seqs.B are empty and not nil, Maps.A holds a pair
     Input(Arg(PtrTo(<<"Seqs">>), 1),
           <<Cell(<<"Seqs">>, [Zero(<<"Seqs">>) EXCEPT ![1] = [nil |-> FALSE, elems |-> <<>>],
                                                       ![2] = [nil |-> FALSE, elems |-> <<>>]])>>),
     Input(Arg(PtrTo(<<"Maps">>), 1),
           <<Cell(<<"Maps">>, [Zero(<<"Maps">>) EXCEPT ![1] = [nil |-> FALSE, pairs |-> {<<<<"z">>, 9>>}]])>>)>>

CollectionOptionLists ==
    {<<Option("WithDefaultExtractor", extractorInstance, FALSE)>>,
     <<Option("WithBasicDefaulters", NilExtractor, FALSE),
       Option("WithDefaultExtractor", extractorInstance, FALSE)>>,
     <<Option("WithBasicDefaulters", NilExtractor, FALSE),
       Option("WithDefaultExtractor", extractorInstance, FALSE),
       Option("WithIgnoreCannotSet", NilExtractor, TRUE)>>}

InitCollections == InitWith(CollectionOptionLists, CollectionShapes)

NextCollections == Register \/ ApplyDefaults

SpecCollections == InitCollections /\ [][NextCollections]_vars

-----------------------------------------------------------------------------
(* The bundled extractor on its own *)

\* The longest tag value handed to the extractor.
MaxTag == 4

\* The characters of the tag values: a space, two separators, a prefix
\* character and a plain one.
TagChars == {" ", ",", ";", "p", "a"}

RECURSIVE TextsUpTo(_)
TextsUpTo(n) ==
    IF n = 0 THEN {<<>>}
    ELSE TextsUpTo(n - 1) \cup {Append(t, c) : t \in {u \in TextsUpTo(n - 1) : Len(u) = n - 1}, c \in TagChars}

\* Fields with the tag the extractor is set to, with another tag only, and
\* with both.
TaggedFields ==
    {Fld("F", <<"string">>, DefaultTag(v), TRUE, FALSE) : v \in TextsUpTo(MaxTag)}
    \cup {Fld("F", <<"string">>, <<[key |-> "json", val |-> T_foo]>>, TRUE, FALSE),
          Fld("F", <<"string">>, NoTag, TRUE, FALSE),
          Fld("F", <<"string">>, <<[key |-> "json", val |-> T_foo]>> \o DefaultTag(<<"p", "a">>),
              TRUE, FALSE)}

InitExtract ==
    /\ types = DeclaredTypes
    /\ \E prefix \in {<<>>, <<"p">>}, separator \in {<<",">>, <<";">>} :
           extractor = NewDefaultzExtractor("default", prefix, separator)
    /\ given \in TaggedFields
    /\ answer = <<>>
    /\ running = <<>>
    /\ defaulters = [k \in AllKinds |-> <<>>]
    /\ ignoreCannotSet = FALSE
    /\ heap = <<>>
    /\ pre = <<>>
    /\ arg = Arg(<<>>, 0)
    /\ err = NoErr
    /\ log = <<>>
    /\ prev = NoCall
    /\ calls = 0
    /\ registered = 0

\* d.ExtractDefault(field)
ExtractCall ==
    /\ calls = 0
    /\ answer' = ExtractDefault(extractor, given)
    /\ calls' = 1
    /\ UNCHANGED <<defaulters, extractor, ignoreCannotSet, heap, arg, err, log, pre, prev,
                   registered, given, running, types>>

NextExtract == ExtractCall

SpecExtract == InitExtract /\ [][NextExtract]_vars

-----------------------------------------------------------------------------
(* The walk taken one field at a time.  The calls of DoApplyDefaults that *)
(* are under way are kept as frames: the record a call walks, the field   *)
(* its loop comes to next, and the path it was called with.               *)

\* The most calls of DoApplyDefaults under way at once that are followed.
MaxDepth == 5

Frame(v, i, path) == [v |-> v, i |-> i, path |-> path]

\* A call of ApplyDefaults: its argument, the memory when it began, what it
\* has done so far, where it stands, and the frames of DoApplyDefaults.
Walker(a, h) == [arg |-> a, first |-> h, st |-> Walk(h, <<>>, NoErr), pc |-> "start", frames |-> <<>>]

\* The call has returned (or panicked) with st.
Over(w, st) == [w EXCEPT !.st = st, !.pc = "done", !.frames = <<>>]

\* The head of DoApplyDefaults(value, path) up to its loop: a new frame on
\* top for a struct, nothing to do for anything else.
Enter(r, w, value, path) ==
    IF r.extractor.kind = "nil" THEN Over(w, Fail(w.st, ErrNoExtractor))
    ELSE IF NumKinds(r.defaulters) = 0 THEN Over(w, Fail(w.st, ErrNoDefaulters))
    ELSE IF Kind(Dereference(w.st.heap, value).type) # "struct" THEN w
    ELSE [w EXCEPT !.frames = Append(@, Frame(Dereference(w.st.heap, value), 1, path))]

\* ApplyDefaults up to its call of DoApplyDefaults on the root.
WalkerBegan(r, w) ==
    IF InvalidInput(w.arg) THEN Over(w, Fail(w.st, ErrInvalidInput))
    ELSE IF detectPotentialCycles(Elem(w.arg.type), {}).cycle THEN Over(w, Fail(w.st, ErrCyclic))
    ELSE Enter(r, [w EXCEPT !.pc = "walk"], Ref(w.arg.val, <<>>, Elem(w.arg.type), FALSE, FALSE),
               RootPath(Elem(w.arg.type)))

\* ApplyDefaults up to its call of DoApplyDefaults, the cycle check left out.
WalkerBeganUnchecked(r, w) ==
    IF InvalidInput(w.arg) THEN Over(w, Fail(w.st, ErrInvalidInput))
    ELSE Enter(r, [w EXCEPT !.pc = "walk"], Ref(w.arg.val, <<>>, Elem(w.arg.type), FALSE, FALSE),
               RootPath(Elem(w.arg.type)))

\* What a field that is not gone into leaves: the walk goes on, or the
\* error ends the call.
AfterLeaf(w, st1) == IF st1.err # NoErr THEN Over(w, st1) ELSE [w EXCEPT !.st = st1]

\* The loop body of DoApplyDefaults for the field fv of the frame on top,
\* whose loop counter has moved on already.
Visit(r, w, fv, field, path) ==
    IF Kind(fv.type) = "struct"
    THEN Enter(r, w, fv, addFieldToPath(path, field))
    ELSE IF Kind(fv.type) = "ptr" /\ Kind(Elem(field.type)) = "struct"
    THEN IF Load(w.st.heap, fv) = 0
         THEN IF ~CanSet(fv)
              THEN Over(w, Fail(w.st, Panic("reflect.Value.Set using value obtained using unexported field")))
              ELSE Enter(r, [w EXCEPT !.st = InitPointer(w.st, fv, field)],
                         ElemRef(InitPointer(w.st, fv, field).heap, fv), addFieldToPath(path, field))
         ELSE Enter(r, w, ElemRef(w.st.heap, fv), addFieldToPath(path, field))
    ELSE IF ~IsZero(fv.type, Load(w.st.heap, fv)) THEN w
    ELSE AfterLeaf(w, DefaultField(r, w.st, fv, field, path))

\* The frame on top is through with its fields: DoApplyDefaults returns nil,
\* to the loop that called it or to ApplyDefaults.
Leave(w) ==
    IF Len(w.frames) = 1 THEN Over(w, w.st)
    ELSE [w EXCEPT !.frames = SubSeq(@, 1, Len(@) - 1)]

\* One pass of the loop of the frame f on top.
TopStepped(r, w, f) ==
    IF f.i > NumField(f.v.type) THEN Leave(w)
    ELSE Visit(r, [w EXCEPT !.frames[Len(w.frames)].i = f.i + 1],
               FieldRef(f.v, f.i), TypeFields(f.v.type)[f.i], f.path)

\* A root that is no struct never gets a frame: ApplyDefaults returns nil.
WalkerStepped(r, w) ==
    IF w.frames = <<>> THEN Over(w, w.st) ELSE TopStepped(r, w, w.frames[Len(w.frames)])

WalkerMoves(w) ==
    /\ Len(w.frames) <= MaxDepth
    /\ running' = <<w>>
    /\ UNCHANGED <<defaulters, extractor, ignoreCannotSet, heap, arg, err, log, pre, prev, calls,
                   registered, given, answer, types>>

WalkBegin ==
    /\ running[1].pc = "start"
    /\ WalkerMoves(WalkerBegan(Registry(defaulters, extractor, ignoreCannotSet), running[1]))

WalkStep ==
    /\ running[1].pc = "walk"
    /\ WalkerMoves(WalkerStepped(Registry(defaulters, extractor, ignoreCannotSet), running[1]))

InitWalk ==
    /\ types = DeclaredTypes
    /\ \E o \in OptionLists :
         LET r == NewDefaulterRegistry(o)
         IN  /\ defaulters = r.defaulters
             /\ extractor = r.extractor
             /\ ignoreCannotSet = r.ignoreCannotSet
    /\ \E i \in 1..Len(Shapes) : running = <<Walker(Shapes[i].arg, Shapes[i].heap)>>
    /\ heap = <<>>
    /\ pre = <<>>
    /\ arg = Arg(<<>>, 0)
    /\ err = NoErr
    /\ log = <<>>
    /\ prev = NoCall
    /\ calls = 0
    /\ registered = 0
    /\ given = <<>>
    /\ answer = <<>>

NextWalk == WalkBegin \/ WalkStep

SpecWalk == InitWalk /\ [][NextWalk]_vars

-----------------------------------------------------------------------------
(* The cycle detector called by itself, as its test calls it: on a type,  *)
(* with a map of the types seen.                                          *)

\* The record types the detector is asked about.
CycleNames ==
    {"basic", "Parent", "Child", "Leaf", "Family", "Tx", "Arrs", "Seqs", "Maps", "Ptrs",
     "directSelfCycle", "cyclicParent1", "cyclicChild1", "deepCyclic1", "deepCyclic2",
     "deepMultiCyclic1", "deepMultiCyclic2", "deepMultiCyclic3", "embeddedCyclic",
     "structWithSlice", "structWithMap", "structWithInterface", "nestedPointerCycle",
     "sliceSelf", "mapSelf", "arraySelf", "diamond", "leadsToCycle"}

\* The types it is called with: the records, pointers and pointers to
\* pointers to them, slices of them, and types that are no records.
CycleTypes ==
    {<<n>> : n \in CycleNames} \cup {PtrTo(<<n>>) : n \in CycleNames}
        \cup {PtrTo(PtrTo(<<"directSelfCycle">>)), <<"[]", "directSelfCycle">>, <<"int">>,
              PtrTo(<<"int">>), <<"interface">>}

\* The maps it is called with: empty as ApplyDefaults makes it, or holding
\* types already.
SeenSets == SUBSET {<<"Leaf">>, <<"Child">>, <<"deepCyclic2">>}

InitCycles ==
    /\ types = DeclaredTypes
    /\ \E t \in CycleTypes, seen \in SeenSets : given = <<t, seen>>
    /\ answer = <<>>
    /\ running = <<>>
    /\ extractor = NilExtractor
    /\ defaulters = [k \in AllKinds |-> <<>>]
    /\ ignoreCannotSet = FALSE
    /\ heap = <<>>
    /\ pre = <<>>
    /\ arg = Arg(<<>>, 0)
    /\ err = NoErr
    /\ log = <<>>
    /\ prev = NoCall
    /\ calls = 0
    /\ registered = 0

\* detectPotentialCycles(t, seen)
DetectCall ==
    /\ calls = 0
    /\ answer' = detectPotentialCycles(given[1], given[2])
    /\ calls' = 1
    /\ UNCHANGED <<defaulters, extractor, ignoreCannotSet, heap, arg, err, log, pre, prev,
                   registered, given, running, types>>

NextCycles == DetectCall

SpecCycles == InitCycles /\ [][NextCycles]_vars

-----------------------------------------------------------------------------
(* Records in records, with a defaulter registered for the kind struct *)

\* A caller's defaulter for the kind struct; called, it passes the field on.
structDefaulter == Dft("test.structDefaulter", <<"struct">>, TRUE, FALSE, FALSE)

RegisterForStruct == \E priority \in {500, 2000} : RegisterCall(priority, structDefaulter)

NestingShapes ==
    <<PtrToZero("Tagged"), PtrToZero("Parent"), PtrToZero("Family"), PtrToZero("Tx"),
     PtrToZero("Arrs"), PtrToZero("nestedPointerCycle"), PtrToZero("Bare"), PtrToZero("TxPtr"),
     PtrToZero("Hidden"),
     \* Tagged.P already points somewhere
     Input(Arg(PtrTo(<<"Tagged">>), 1),
           <<Cell(<<"Tagged">>, <<<<T_foo>>, 2, FALSE>>), Cell(<<"Item">>, <<<<>>>>)>>)>>

NestingOptionLists ==
    {<<Option("WithDefaultExtractor", extractorInstance, FALSE)>>,
     <<Option("WithBasicDefaulters", NilExtractor, FALSE),
       Option("WithDefaultExtractor", extractorInstance, FALSE)>>}

InitNesting == InitWith(NestingOptionLists, NestingShapes)

NextNesting == RegisterForStruct \/ ApplyDefaults

SpecNesting == InitNesting /\ [][NextNesting]_vars

-----------------------------------------------------------------------------
(* Records with numbers at and beyond the range of their kind *)

RangeShapes ==
    <<PtrToZero("Narrow8"), PtrToZero("Under8"), PtrToZero("Over8u"), PtrToZero("Narrow16"),
     PtrToZero("Over16u"), PtrToZero("Narrow32"), PtrToZero("Under32"), PtrToZero("Over32u"),
     PtrToZero("Edges")>>

RangeOptionLists ==
    {<<Option("WithBasicDefaulters", NilExtractor, FALSE),
       Option("WithDefaultExtractor", extractorInstance, FALSE)>>,
     <<Option("WithBasicDefaulters", NilExtractor, FALSE),
       Option("WithDefaultExtractor", extractorInstance, FALSE),
       Option("WithIgnoreCannotSet", NilExtractor, TRUE)>>}

InitRanges == InitWith(RangeOptionLists, RangeShapes)

NextRanges == Register \/ ApplyDefaults

SpecRanges == InitRanges /\ [][NextRanges]_vars

-----------------------------------------------------------------------------
(* Calls side by side.  Each call walks its own record, which shares no   *)
(* memory with the other's; the registry is the one thing they share.  A  *)
(* call is taken one field of its root record at a time, and reads the    *)
(* registry anew at every step.                                           *)

\* A call: its argument, the memory of its record when it began, what it
\* has done so far, where it stands (pc, and the next field i of the root).
Call(a, h) == [arg |-> a, first |-> h, st |-> Walk(h, <<>>, NoErr), pc |-> "start", i |-> 1]

Ended(c, st) == [c EXCEPT !.st = st, !.pc = "done"]

\* ApplyDefaults up to the loop of DoApplyDefaults over the root's fields.
Began(r, c) ==
    IF InvalidInput(c.arg) THEN Ended(c, Fail(c.st, ErrInvalidInput))
    ELSE IF detectPotentialCycles(Elem(c.arg.type), {}).cycle THEN Ended(c, Fail(c.st, ErrCyclic))
    ELSE IF r.extractor.kind = "nil" THEN Ended(c, Fail(c.st, ErrNoExtractor))
    ELSE IF NumKinds(r.defaulters) = 0 THEN Ended(c, Fail(c.st, ErrNoDefaulters))
    ELSE [c EXCEPT !.pc = "fields"]

\* The end of one pass of the root's loop.
Passed(c, st1) ==
    IF st1.err # NoErr THEN Ended(c, st1) ELSE [c EXCEPT !.st = st1, !.i = c.i + 1]

\* One pass of the root's loop, or its end.
Stepped(r, c) ==
    IF c.i > NumField(Elem(c.arg.type)) THEN Ended(c, c.st)
    ELSE Passed(c, FieldStep(r, c.st, Ref(c.arg.val, <<>>, Elem(c.arg.type), FALSE, FALSE), c.i,
                             RootPath(Elem(c.arg.type))))

\* A walk that uses up the defaulters for bool as it goes.
RegistryLeftConsumed(r, c) ==
    [r EXCEPT !.defaulters["bool"] = IF @ = <<>> THEN @ ELSE Tail(@)]

\* The registry as a step of a call leaves it: ApplyDefaults and
\* DoApplyDefaults assign to no field of the registry and to no entry of
\* its map.
RegistryLeft(r, c) == r

\* A step of the call c with the registry as it is now.
CallStep(p, c) ==
    /\ running' = [running EXCEPT ![p] = c]
    /\ defaulters' = RegistryLeft(Registry(defaulters, extractor, ignoreCannotSet), c).defaulters
    /\ extractor' = RegistryLeft(Registry(defaulters, extractor, ignoreCannotSet), c).extractor
    /\ ignoreCannotSet' =
           RegistryLeft(Registry(defaulters, extractor, ignoreCannotSet), c).ignoreCannotSet
    /\ UNCHANGED <<heap, arg, err, log, pre, prev, calls, registered, given, answer, types>>

Begin ==
    \E p \in 1..Len(running) :
        /\ running[p].pc = "start"
        /\ CallStep(p, Began(Registry(defaulters, extractor, ignoreCannotSet), running[p]))

Step ==
    \E p \in 1..Len(running) :
        /\ running[p].pc = "fields"
        /\ CallStep(p, Stepped(Registry(defaulters, extractor, ignoreCannotSet), running[p]))

\* Register while the registry is being built: before any call began.
RegisterFirst ==
    /\ \A p \in 1..Len(running) : running[p].pc = "start"
    /\ Register

ConcurrentShapes ==
    <<PtrToZero("basic"), PtrToZero("Tx"), PtrToZero("Family"), PtrToZero("Seqs"),
     PtrToZero("yay"), PtrToZero("directSelfCycle"),
     Input(Arg(PtrTo(<<"int">>), 1), <<Cell(<<"int">>, 0)>>)>>

InitConcurrent ==
    /\ types = DeclaredTypes
    /\ \E o \in ChainOptionLists \cup {<<>>} :
         LET r == NewDefaulterRegistry(o)
         IN  /\ defaulters = r.defaulters
             /\ extractor = r.extractor
             /\ ignoreCannotSet = r.ignoreCannotSet
    /\ \E i \in 1..Len(ConcurrentShapes), j \in 1..Len(ConcurrentShapes) :
         running = <<Call(ConcurrentShapes[i].arg, ConcurrentShapes[i].heap),
                     Call(ConcurrentShapes[j].arg, ConcurrentShapes[j].heap)>>
    /\ heap = <<>>
    /\ pre = <<>>
    /\ arg = Arg(<<>>, 0)
    /\ err = NoErr
    /\ log = <<>>
    /\ prev = NoCall
    /\ calls = 0
    /\ registered = 0
    /\ given = <<>>
    /\ answer = <<>>

NextConcurrent == RegisterFirst \/ Begin \/ Step

SpecConcurrent == InitConcurrent /\ [][NextConcurrent]_vars

-----------------------------------------------------------------------------
(* What the properties speak of *)

\* Every field of the struct type t, at every nesting level of structs held
\* by value: the way down to it and its type.
RECURSIVE FieldPaths(_)
FieldPaths(t) ==
    UNION {LET ft == TypeFields(t)[i].type
           IN  {<<<<i>>, ft>>} \cup
               (IF Kind(ft) = "struct" THEN {<<<<i>> \o p[1], p[2]>> : p \in FieldPaths(ft)} ELSE {})
           : i \in 1..NumField(t)}

\* The fields of the heap h that are not themselves structs: the cell, the
\* way down, the type.
LeafFields(h) ==
    UNION {IF Kind(h[a].type) = "struct"
           THEN {<<a, p[1], p[2]>> : p \in {q \in FieldPaths(h[a].type) : Kind(q[2]) # "struct"}}
           ELSE {}
           : a \in 1..Len(h)}

ValueAt(h, f) == GetIn(h[f[1]].val, f[2])

\* The events of a log that concern the field f.
EventsAt(l, f) == {j \in 1..Len(l) : l[j].at = <<f[1]>> \o f[2]}

\* The argument is a non-nil pointer to a record.
IsRecordPointer(a) ==
    /\ Len(a.type) = 2
    /\ a.type[1] = "*"
    /\ Named(a.type[2]).kind = "struct"
    /\ a.val # 0

\* C1: after ApplyDefaults returns, with success or with an error, every
\* field that is not a record and held a non-zero value before the call holds
\* the same value, and neither the extractor nor a defaulter was called for it.
C1_NonZeroLeftAlone ==
    calls > 0 =>
        \A f \in LeafFields(pre) :
            ~IsZero(f[3], ValueAt(pre, f)) =>
                /\ ValueAt(heap, f) = ValueAt(pre, f)
                /\ EventsAt(log, f) = {}

\* A call that defaulted some field and left alone a non-zero field of a
\* record behind a pointer.
C1_Witness ==
    /\ calls > 0
    /\ \E j \in 1..Len(log) : log[j].op = "handle" /\ log[j].set
    /\ \E f \in LeafFields(pre) : f[1] > 1 /\ Kind(f[3]) = "int8" /\ ~IsZero(f[3], ValueAt(pre, f))
    /\ \E f \in LeafFields(pre) : f[1] = 1 /\ Len(f[2]) = 2 /\ ~IsZero(f[3], ValueAt(pre, f))

\* Every field that is not itself a record holds a value, in every record of the heap.
AllNonZero(h) == \A f \in LeafFields(h) : ~IsZero(f[3], ValueAt(h, f))

\* The registry has an extractor and at least one defaulter.
Usable == extractor.kind # "nil" /\ NumKinds(defaulters) > 0

\* The record types the record type t refers to in one step: the type of a
\* field that is a record, or the type a field points to at one remove.
Refers(t) ==
    {TypeFields(t)[i].type : i \in {j \in 1..NumField(t) : Kind(TypeFields(t)[j].type) = "struct"}}
    \cup {Elem(TypeFields(t)[i].type) :
            i \in {j \in 1..NumField(t) : /\ Kind(TypeFields(t)[j].type) = "ptr"
                                         /\ Kind(Elem(TypeFields(t)[j].type)) = "struct"}}

RECURSIVE Reachable(_, _)
Reachable(from, acc) ==
    LET new == UNION {Refers(t) : t \in from} \ acc
    IN  IF new = {} THEN acc ELSE Reachable(new, acc \cup new)

\* The record types t refers to in one step or more.
ReferredFrom(t) == Reachable({t}, {})

\* The type graph below t holds a type that refers to itself.
HasSelfReference(t) == \E u \in ReferredFrom(t) \cup {t} : u \in ReferredFrom(u)

\* C2 as stated: on a registry with an extractor and defaulters, a call on a
\* record whose fields all hold a value returns no error and changes
\* nothing, whatever the record's type.
C2_AsStated ==
    (calls > 0 /\ IsRecordPointer(arg) /\ AllNonZero(pre) /\ Usable) =>
        (err = NoErr /\ heap = pre)

\* C2: a call on a record whose fields all hold a value changes nothing and
\* asks neither the extractor nor a defaulter; it returns no error exactly
\* when the record's type does not refer to itself and the registry has an
\* extractor and at least one defaulter, and otherwise the error of the
\* first of these checks that fails.
C2_AllNonZeroNoOp ==
    (calls > 0 /\ IsRecordPointer(arg) /\ AllNonZero(pre)) =>
        /\ heap = pre
        /\ log = <<>>
        /\ err = IF HasSelfReference(Elem(arg.type)) THEN ErrCyclic
                 ELSE IF extractor.kind = "nil" THEN ErrNoExtractor
                 ELSE IF NumKinds(defaulters) = 0 THEN ErrNoDefaulters
                 ELSE NoErr

\* A call that returned no error on a record with a record behind a
\* pointer, all fields of both holding a value.
C2_Witness ==
    /\ calls > 0
    /\ IsRecordPointer(arg)
    /\ AllNonZero(pre)
    /\ Len(pre) > 1
    /\ err = NoErr
    /\ heap = pre

\* C3 as stated: the second of two calls in a row leaves the record and the
\* outcome as the first left them, and every field a defaulter set in the
\* first call holds a non-zero value after it.
C3_AsStated ==
    calls = 2 =>
        /\ heap = prev.heap
        /\ err = prev.err
        /\ \A f \in LeafFields(prev.heap) :
               (\E j \in EventsAt(prev.log, f) : prev.log[j].op = "handle" /\ prev.log[j].set)
                   => ~IsZero(f[3], ValueAt(prev.heap, f))

\* C3: the second of two calls in a row leaves the record as the first call
\* left it and returns what the first call returned.
C3_Idempotent == calls = 2 => (heap = prev.heap /\ err = prev.err)

\* Two calls in a row, the first of which set fields, the second of which
\* still called a defaulter and was left with less to do.
C3_Witness ==
    /\ calls = 2
    /\ err = NoErr
    /\ \E j \in 1..Len(prev.log) : prev.log[j].op = "handle" /\ prev.log[j].set
    /\ \E j \in 1..Len(log) : log[j].op = "handle" /\ log[j].set
    /\ Len(log) < Len(prev.log)

\* C4: a call on a record whose type graph holds a type that refers to
\* itself (directly, through nested record types, or through one pointer)
\* returns the error for cyclic types, writes nothing, allocates nothing and
\* asks neither the extractor nor a defaulter; no other record gets that error.
C4_CyclicTypeRejected ==
    (calls > 0 /\ IsRecordPointer(arg)) =>
        IF HasSelfReference(Elem(arg.type))
        THEN err = ErrCyclic /\ heap = pre /\ log = <<>>
        ELSE err # ErrCyclic

\* A call on a record whose type refers to itself through a nested record
\* and a pointer, with a zero field that has a default, on a usable registry.
C4_Witness ==
    /\ calls > 0
    /\ IsRecordPointer(arg)
    /\ Elem(arg.type) = <<"cyclicParent1">>
    /\ pre[1].val[1] = FALSE
    /\ Usable
    /\ err = ErrCyclic

\* C5: a call whose argument is not a non-nil pointer to a record (no
\* pointer at all, a record by value, a nil pointer, a pointer to something
\* that is no record, a pointer to a pointer) returns the error for invalid
\* input, also where the type behind the pointer refers to itself, and
\* writes nothing and asks nobody.
C5_InvalidInputRejected ==
    (calls > 0 /\ ~IsRecordPointer(arg)) =>
        (err = ErrInvalidInput /\ heap = pre /\ log = <<>>)

\* Rejected calls: on a pointer to a pointer to a record, and on a nil
\* pointer of a type that refers to itself.
C5_Witness ==
    /\ calls > 0
    /\ err = ErrInvalidInput
    /\ Usable
    /\ \/ Kind(arg.type) = "ptr" /\ arg.val # 0 /\ Kind(Elem(arg.type)) = "ptr"
       \/ Kind(arg.type) = "ptr" /\ arg.val = 0 /\ HasSelfReference(Elem(arg.type))

\* The calls of HandleField for the field f, in the order they were made.
Handles(l, f) ==
    LET AtField(e) == e.op = "handle" /\ e.at = <<f[1]>> \o f[2]
    IN  SelectSeq(l, AtField)

\* The registry's sequence for the kind of the field f.
ChainOf(f) == defaulters[EffectiveKind(f[3])]

\* C6: the HandleField calls a walk makes for one field follow each other
\* without a gap and go down the registry's sequence for the field's kind
\* from its first entry, one entry at a time; every call but the last
\* answered callNext = true, and where the calls end before the sequence
\* does, the last call answered callNext = false, whatever it set and
\* whether or not it reported an error.
C6_ChainOrderAndStop ==
    calls > 0 =>
        \A f \in LeafFields(heap) :
            LET P == {j \in EventsAt(log, f) : log[j].op = "handle"}
                ch == ChainOf(f)
                hs == Handles(log, f)
            IN  P # {} =>
                    /\ \A j \in P, k \in P : \A m \in j..k : m \in P
                    /\ Len(hs) <= Len(ch)
                    /\ \A j \in 1..Len(hs) :
                           /\ hs[j].who = ch[j].Defaulter.name
                           /\ j < Len(hs) => hs[j].callNext
                    /\ Len(hs) < Len(ch) => ~hs[Len(hs)].callNext

\* A chain of three cut short after its second defaulter, which set
\* nothing and reported an error.
C6_Witness ==
    /\ calls > 0
    /\ \E f \in LeafFields(heap) :
           /\ Len(ChainOf(f)) >= 3
           /\ Len(Handles(log, f)) = 2
           /\ ~Handles(log, f)[2].callNext
           /\ ~Handles(log, f)[2].set
           /\ Handles(log, f)[2].failed

\* The walk ended at the field f with the error of a chain that set nothing.
FieldFailed(f) ==
    /\ err.code = "failed to apply default value"
    /\ log # <<>>
    /\ log[Len(log)].at = <<f[1]>> \o f[2]

\* The walk went on behind the field f: the next field of the same record,
\* where it was zero, was looked at.
WentOn(f) ==
    \A g \in LeafFields(pre) :
        (/\ g[1] = f[1]
         /\ Len(g[2]) = Len(f[2])
         /\ SubSeq(g[2], 1, Len(g[2]) - 1) = SubSeq(f[2], 1, Len(f[2]) - 1)
         /\ g[2][Len(g[2])] = f[2][Len(f[2])] + 1
         /\ IsZero(g[3], ValueAt(pre, g)))
            => EventsAt(log, g) # {}

\* C7: a field whose chain was run makes the walk fail exactly when no
\* defaulter called for it answered set = true and at least one reported
\* an error; the error then carries every error reported and the field is
\* as it was. Otherwise the walk goes on with the next field, and where
\* nothing was set and nothing reported the field is still zero.
C7_FailIffNothingSetAndError ==
    calls > 0 =>
        \A f \in LeafFields(heap) :
            LET hs == Handles(log, f)
                noneSet == \A j \in 1..Len(hs) : ~hs[j].set
                failures == {j \in 1..Len(hs) : hs[j].failed}
            IN  hs # <<>> =>
                    /\ FieldFailed(f) <=> (noneSet /\ failures # {})
                    /\ FieldFailed(f) =>
                           /\ Len(err.errs) = Cardinality(failures)
                           /\ ValueAt(heap, f) = ValueAt(pre, f)
                    /\ ~FieldFailed(f) => WentOn(f)
                    /\ (noneSet /\ failures = {}) =>
                           /\ ValueAt(heap, f) = ValueAt(pre, f)
                           /\ IsZero(f[3], ValueAt(heap, f))

\* A walk that succeeded on a record with a field for which one defaulter
\* reported an error and a later one set a value, and went on to the next field.
C7_Witness ==
    /\ calls > 0
    /\ err = NoErr
    /\ \E f \in LeafFields(heap) :
           \E j \in 1..Len(Handles(log, f)), k \in 1..Len(Handles(log, f)) :
               /\ j < k
               /\ Handles(log, f)[j].failed
               /\ ~Handles(log, f)[j].set
               /\ Handles(log, f)[k].set
    /\ \E f \in LeafFields(heap) : f[2] = <<2>> /\ Handles(log, f) # <<>>

\* Every kind's sequence is sorted by priority, lowest first.
Sorted(ds) ==
    \A k \in AllKinds : \A i \in 1..Len(ds[k]), j \in 1..Len(ds[k]) :
        i < j => ds[k][i].Priority <= ds[k][j].Priority

\* new is old with x put in behind the entries of priority up to x's and
\* ahead of those of greater priority.
InsertedStably(old, new, x) ==
    \E pos \in 0..Len(old) :
        /\ new = SubSeq(old, 1, pos) \o <<x>> \o SubSeq(old, pos + 1, Len(old))
        /\ \A i \in 1..pos : old[i].Priority <= x.Priority
        /\ \A i \in (pos + 1)..Len(old) : old[i].Priority > x.Priority

\* The entries of a sequence.
Entries(dwps) == {dwps[i] : i \in 1..Len(dwps)}

\* C8: every kind's sequence is sorted by priority, lowest first, from
\* NewDefaulterRegistry on; and every Register call puts one entry into the
\* sequence of each kind its defaulter declares, behind the entries of the
\* same priority that were there, and leaves the other sequences alone.
C8_RegistryOrdered ==
    /\ [](Sorted(defaulters))
    /\ [][defaulters' # defaulters =>
            \E x \in UNION {Entries(defaulters'[k]) : k \in AllKinds} :
                \A k \in AllKinds :
                    IF \E i \in 1..Len(x.Defaulter.kinds) : x.Defaulter.kinds[i] = k
                    THEN InsertedStably(defaulters[k], defaulters'[k], x)
                    ELSE defaulters'[k] = defaulters[k]]_vars

\* A sequence of four with the two registered entries level with bundled
\* ones: one ahead of the DurationDefaulter, one behind it.
C8_Witness ==
    /\ registered = 2
    /\ Len(defaulters["int64"]) = 4
    /\ defaulters["int64"][1].Defaulter = IntDefaulter
    /\ defaulters["int64"][2].Priority = PriorityPrimitiveDefaulter
    /\ defaulters["int64"][3].Defaulter = DurationDefaulter
    /\ defaulters["int64"][4].Priority = PriorityOtherDefaulter

\* Where the defaulter named n stands in a sequence.
Places(dwps, n) == {i \in 1..Len(dwps) : dwps[i].Defaulter.name = n}

\* Which of the calls hs went to the defaulter named n.
Called(hs, n) == {i \in 1..Len(hs) : hs[i].who = n}

C10_AsStated ==
    (calls > 0 /\ ignoreCannotSet) =>
        /\ err.code # "panic"
        /\ \A i \in 1..Len(err.field) : err.field[i].exported

\* The field at the end of the way path down the struct type t.
RECURSIVE FieldOf(_, _)
FieldOf(t, path) ==
    IF Len(path) = 1 THEN TypeFields(t)[path[1]]
    ELSE FieldOf(TypeFields(t)[path[1]].type, Tail(path))

\* The way path down the struct type t ends at a field that cannot be
\* written: it is unexported, or lies below an unexported field that is
\* not embedded.
RECURSIVE PathReadOnly(_, _)
PathReadOnly(t, path) ==
    IF Len(path) = 1 THEN ~TypeFields(t)[path[1]].exported
    ELSE \/ ~TypeFields(t)[path[1]].exported /\ ~TypeFields(t)[path[1]].anonymous
         \/ PathReadOnly(TypeFields(t)[path[1]].type, Tail(path))

\* The cell a of the heap h is pointed to by a field that cannot be
\* written, at up to n removes from the root record in cell 1.
RECURSIVE CellReadOnly(_, _, _)
CellReadOnly(h, a, n) ==
    IF a = 1 \/ n = 0 THEN FALSE
    ELSE \E b \in 1..Len(h) :
            /\ Kind(h[b].type) = "struct"
            /\ \E p \in FieldPaths(h[b].type) :
                   /\ Kind(p[2]) = "ptr"
                   /\ GetIn(h[b].val, p[1]) = a
                   /\ PathReadOnly(h[b].type, p[1]) \/ CellReadOnly(h, b, n - 1)

\* The storage of the field f of the heap h cannot be written.
ReadOnly(h, f) == PathReadOnly(h[f[1]].type, f[2]) \/ CellReadOnly(h, f[1], Len(h))

\* The walk asked the extractor about the field f.
Asked(l, f) == \E j \in EventsAt(l, f) : l[j].op = "extract"

\* The extractor of the registry finds a default for the field f.
HasDefault(h, f) == ExtractDefault(extractor, FieldOf(h[f[1]].type, f[2])).found

\* C11: without ignoreCannotSet, a field that cannot be written, is zero,
\* has a default and a kind with defaulters, once the walk comes to it, ends
\* the call with the cannot-set error naming that field, no defaulter having
\* been called for it and its value as it was; and the cannot-set error is
\* returned for such a field only, never for a field that has no default or
\* holds a value.
C11_CannotSetFails ==
    (calls > 0 /\ ~ignoreCannotSet) =>
        /\ \A f \in LeafFields(pre) :
               (/\ Asked(log, f)
                /\ ReadOnly(pre, f)
                /\ HasDefault(pre, f)
                /\ ~(Kind(f[3]) = "ptr" /\ Kind(Elem(f[3])) = "ptr")
                /\ ChainOf(f) # <<>>)
                   => /\ err.code = ErrCannotSetField
                      /\ err.field = <<FieldOf(pre[f[1]].type, f[2])>>
                      /\ Handles(log, f) = <<>>
                      /\ ValueAt(heap, f) = ValueAt(pre, f)
        /\ err.code = ErrCannotSetField =>
               \E f \in LeafFields(pre) :
                   /\ err.field = <<FieldOf(pre[f[1]].type, f[2])>>
                   /\ log[Len(log)].at = <<f[1]>> \o f[2]
                   /\ ReadOnly(pre, f)
                   /\ IsZero(f[3], ValueAt(pre, f))
                   /\ HasDefault(pre, f)
        /\ \A f \in LeafFields(pre) :
               (ReadOnly(pre, f) /\ (~IsZero(f[3], ValueAt(pre, f)) \/ ~HasDefault(pre, f)))
                   => ~(err.code = ErrCannotSetField /\ log[Len(log)].at = <<f[1]>> \o f[2])

\* A call that set the exported field of TestExportedWithUnexportedField and
\* ended with the cannot-set error at the unexported one.
C11_Witness ==
    /\ calls > 0
    /\ ~ignoreCannotSet
    /\ arg.type = PtrTo(<<"TestExportedWithUnexportedField">>)
    /\ err.code = ErrCannotSetField
    /\ heap[1].val = <<T_foo, <<>>>>
    /\ pre[1].val = <<<<>>, <<>>>>

\* What the registry's extractor answers for the field f.
Answer(h, f) == ExtractDefault(extractor, FieldOf(h[f[1]].type, f[2]))

\* The log ends with what was done at the field f.
EndsAt(l, f) == l # <<>> /\ l[Len(l)].at = <<f[1]>> \o f[2]

\* C12: the walk asks the extractor at most once about a field, and only
\* about a field that is zero. Where the extractor reported an error the
\* call returns the cannot-extract error for that field and nothing is done
\* after it; where it answered not-found no defaulter is called for the
\* field, the field stays zero, no error comes of it and the walk goes on,
\* also for a pointer to a pointer and for a kind without defaulters.
C12_ExtractErrorFatalNotFoundSkips ==
    calls > 0 =>
        /\ \A f \in LeafFields(pre) :
               /\ Cardinality({j \in EventsAt(log, f) : log[j].op = "extract"}) <= 1
               /\ Asked(log, f) => IsZero(f[3], ValueAt(pre, f))
               /\ (Asked(log, f) /\ Answer(pre, f).err # NoErr) =>
                      /\ err.code = ErrCannotExtractDefault
                      /\ err.field = <<FieldOf(pre[f[1]].type, f[2])>>
                      /\ err.msg = Answer(pre, f).err.code
                      /\ EndsAt(log, f)
                      /\ log[Len(log)].op = "extract"
                      /\ ValueAt(heap, f) = ValueAt(pre, f)
               /\ (Asked(log, f) /\ Answer(pre, f).err = NoErr /\ ~Answer(pre, f).found) =>
                      /\ Handles(log, f) = <<>>
                      /\ ValueAt(heap, f) = ValueAt(pre, f)
                      /\ err # NoErr => ~EndsAt(log, f)
                      /\ WentOn(f)
        /\ err.code = ErrCannotExtractDefault =>
               \E f \in LeafFields(pre) : EndsAt(log, f) /\ Answer(pre, f).err # NoErr

\* A call that passed over a pointer to a pointer and an array, both zero
\* and without default, and ended at the field behind them with the error
\* of the extractor.
C12_Witness ==
    /\ calls > 0
    /\ arg.type = PtrTo(<<"Untagged">>)
    /\ pre[1].val = <<0, <<0, 0>>, FALSE>>
    /\ err.code = ErrCannotExtractDefault
    /\ heap = pre
    /\ Len(log) = 3

\* The names of the fields on the way path down the struct type t.
RECURSIVE NamesOn(_, _)
NamesOn(t, path) ==
    IF path = <<>> THEN <<>>
    ELSE <<TypeFields(t)[path[1]].name>> \o NamesOn(TypeFields(t)[path[1]].type, Tail(path))

\* The pointer fields of the heap h that hold the address a.
PointersTo(h, a) ==
    UNION {{<<b, p[1]>> : p \in {q \in FieldPaths(h[b].type) :
                                    Kind(q[2]) = "ptr" /\ GetIn(h[b].val, q[1]) = a}}
           : b \in {c \in 1..Len(h) : Kind(h[c].type) = "struct"}}

\* The path the walk has when it is in the record of cell a, which lies at
\* up to n removes from the root record in cell 1.
RECURSIVE WayTo(_, _, _)
WayTo(h, a, n) ==
    IF a = 1 \/ n = 0 \/ PointersTo(h, a) = {} THEN RootPath(h[1].type)
    ELSE LET src == CHOOSE bp \in PointersTo(h, a) : TRUE
         IN  WayTo(h, src[1], n - 1) \o NamesOn(h[src[1]].type, src[2])

\* The path of the record that holds the field f.
EnclosingPath(h, f) == WayTo(h, f[1], Len(h)) \o NamesOn(h[f[1]].type, SubSeq(f[2], 1, Len(f[2]) - 1))

\* C13: a field that is a pointer to a pointer, once the extractor found a
\* default for it, ends the call with the not-supported error "pointer to
\* pointer is not allowed" carrying the path of the record that holds it
\* and the field; no defaulter is called for it and it stays nil. This holds
\* in the root record, in a record held by value and in a record behind a
\* pointer, whatever the registry's defaulters and ignoreCannotSet.
C13_PointerToPointerRejected ==
    calls > 0 =>
        \A f \in LeafFields(heap) :
            (/\ Kind(f[3]) = "ptr"
             /\ Kind(Elem(f[3])) = "ptr"
             /\ Asked(log, f)
             /\ Answer(heap, f).found)
                => /\ err.code = ErrNotSupported
                   /\ err.msg = "pointer to pointer is not allowed"
                   /\ err.field = <<FieldOf(heap[f[1]].type, f[2])>>
                   /\ err.path = EnclosingPath(heap, f)
                   /\ EndsAt(log, f)
                   /\ Handles(log, f) = <<>>
                   /\ ValueAt(heap, f) = 0

\* A call that set a field, went down a record held by value and ended at
\* the pointer to a pointer in it.
C13_Witness ==
    /\ calls > 0
    /\ arg.type = PtrTo(<<"ppDeep">>)
    /\ err.code = ErrNotSupported
    /\ err.path = <<"<root>", "Field">>
    /\ err.field[1].name = "Field1"
    /\ heap[1].val = <<T_foo, <<0>>, FALSE>>

\* C14: a field, not a pointer to a pointer, for which the extractor found
\* a default and whose kind, behind one pointer, has no defaulters, ends the
\* call with the not-supported error "no defaulters found for kind" naming
\* the kind and the field; it is not passed over, writable or not and
\* whatever ignoreCannotSet, and its value stays as it was.
C14_NoChainNotSupported ==
    calls > 0 =>
        \A f \in LeafFields(heap) :
            (/\ Asked(log, f)
             /\ Answer(heap, f).found
             /\ ~(Kind(f[3]) = "ptr" /\ Kind(Elem(f[3])) = "ptr")
             /\ ChainOf(f) = <<>>)
                => /\ err.code = ErrNotSupported
                   /\ err.msg = "no defaulters found for kind '%s'"
                   /\ err.args = <<EffectiveKind(f[3])>>
                   /\ err.field = <<FieldOf(heap[f[1]].type, f[2])>>
                   /\ err.path = EnclosingPath(heap, f)
                   /\ EndsAt(log, f)
                   /\ IsZero(f[3], ValueAt(heap, f))

\* A call on the bundled defaulters that set a field and ended at the
\* array with a default behind it.
C14_Witness ==
    /\ calls > 0
    /\ arg.type = PtrTo(<<"Bad">>)
    /\ Len(defaulters["bool"]) = 1
    /\ err.code = ErrNotSupported
    /\ err.args = <<"array">>
    /\ heap[1].val = <<T_foo, <<0, 0>>, <<>>>>

\* The places the walk comes by in the heap h, in its order: from the
\* record of type t in cell a, way prefix down, the fields as declared, a
\* record held by value and a record behind a pointer gone through before
\* the field behind it; pointers are followed up to n removes.
RECURSIVE Order(_, _, _, _, _)
RECURSIVE OrderFrom(_, _, _, _, _, _)
Order(h, a, t, prefix, n) == OrderFrom(h, a, t, prefix, n, 1)

OrderFrom(h, a, t, prefix, n, i) ==
    IF i > NumField(t) THEN <<>>
    ELSE LET ft == TypeFields(t)[i].type
             here == Append(prefix, i)
             v == GetIn(h[a].val, here)
             first ==
                 IF Kind(ft) = "struct" THEN Order(h, a, ft, here, n)
                 ELSE IF Kind(ft) = "ptr" /\ Kind(Elem(ft)) = "struct" /\ v # 0 /\ n > 0
                 THEN <<<<a>> \o here>> \o Order(h, v, Elem(ft), <<>>, n - 1)
                 ELSE <<<<a>> \o here>>
         IN  first \o OrderFrom(h, a, t, prefix, n, i + 1)

\* Where the place at stands in the order ord; 0 if nowhere.
IndexIn(ord, at) ==
    IF \E k \in 1..Len(ord) : ord[k] = at THEN CHOOSE k \in 1..Len(ord) : ord[k] = at ELSE 0

\* What the place at held when the call began; a cell the call made began
\* as the zero value of its type.
Before(at) ==
    IF at[1] <= Len(pre) THEN GetIn(pre[at[1]].val, Tail(at))
    ELSE GetIn(Zero(heap[at[1]].type), Tail(at))

\* What a bundled defaulter gives the field f for the default the extractor finds.
Given(h, f) ==
    LET k == Kind(f[3])
        value == Answer(h, f).value
    IN  CASE k = "bool" -> value = T_true
          [] k = "string" -> value
          [] OTHER -> ParseInt(value, BitSize(k)).val

\* C15: a call that ends with the error of a field has done everything it
\* did in the order of the walk, a nested record wholly before the field
\* behind it, and nothing behind the failing field: the fields after it were
\* not asked about, hold what they held, and no pointer after it was
\* initialised. What was set or initialised before it stays: a field a
\* bundled defaulter set holds the value of its default. The error carries
\* the failing field and the path of the record that holds it.
C15_FirstFailureStopsNoRollback ==
    (calls > 0 /\ log # <<>> /\ (err.field # <<>> \/ err.errs # <<>>)) =>
        LET ord == Order(heap, 1, heap[1].type, <<>>, Len(heap))
            k == IndexIn(ord, log[Len(log)].at)
            e == IF err.errs # <<>> THEN err.errs[1] ELSE err
        IN  /\ k > 0
            /\ \A i \in 1..Len(log) : IndexIn(ord, log[i].at) \in 1..k
            /\ \A i \in 1..Len(log), j \in 1..Len(log) :
                   i < j => IndexIn(ord, log[i].at) <= IndexIn(ord, log[j].at)
            /\ \A m \in (k + 1)..Len(ord) :
                   GetIn(heap[ord[m][1]].val, Tail(ord[m])) = Before(ord[m])
            /\ \A f \in LeafFields(heap) :
                   (/\ Kind(f[3]) \in {"bool", "string"} \cup IntKinds
                    /\ \E j \in 1..Len(Handles(log, f)) :
                           /\ Handles(log, f)[j].set
                           /\ Handles(log, f)[j].who \in
                                  {"defaultz.BoolDefaulter", "defaultz.StringDefaulter",
                                   "defaultz.IntDefaulter"})
                       => ValueAt(heap, f) = Given(heap, f)
            /\ \A i \in 1..Len(log) : log[i].op = "alloc" =>
                   GetIn(heap[log[i].at[1]].val, Tail(log[i].at)) # 0
            /\ \E f \in LeafFields(heap) :
                   /\ EndsAt(log, f)
                   /\ e.field = <<FieldOf(heap[f[1]].type, f[2])>>
                   /\ e.path = EnclosingPath(heap, f)

\* A call that set a field of the root record and one of a nested record,
\* failed at the next field of the nested record and left alone the rest
\* of it, the pointer and the field behind it.
C15_Witness ==
    /\ calls > 0
    /\ arg.type = PtrTo(<<"Tx">>)
    /\ pre[1].val = <<<<>>, <<<<>>, <<0, 0>>, <<>>>>, 0, FALSE>>
    /\ heap[1].val = <<T_foo, <<T_foo, <<0, 0>>, <<>>>>, 0, FALSE>>
    /\ Len(heap) = 1
    /\ err.code = ErrNotSupported
    /\ err.path = <<"main", "Tx", "In">>

\* The sequence for the kind of the field f holds the bundled defaulter of that kind.
BundledIn(f) ==
    \E i \in 1..Len(ChainOf(f)) :
        ChainOf(f)[i].Defaulter.name \in
            {"defaultz.BoolDefaulter", "defaultz.StringDefaulter", "defaultz.IntDefaulter"}

\* C16: after a call that returned no error, every field that points to a
\* record, embedded or named, points somewhere: where it did before the
\* call it still points to the same record, where it was nil the call
\* initialised it with a new record. Below the root, in records held by
\* value, embedded and behind pointers alike, every writable bool, string or
\* integer field that was zero, has a default and has the bundled defaulter
\* of its kind in the registry was set by a defaulter and holds the value of
\* its default (or what the test's customDefaulter gave it).
C16_DescendsAndAllocates ==
    (calls > 0 /\ err = NoErr /\ IsRecordPointer(arg)) =>
        \A f \in LeafFields(heap) :
            /\ (Kind(f[3]) = "ptr" /\ Kind(Elem(f[3])) = "struct") =>
                   /\ ValueAt(heap, f) # 0
                   /\ Kind(heap[ValueAt(heap, f)].type) = "struct"
                   /\ Before(<<f[1]>> \o f[2]) # 0 => ValueAt(heap, f) = Before(<<f[1]>> \o f[2])
                   /\ Before(<<f[1]>> \o f[2]) = 0 =>
                          /\ ValueAt(heap, f) > Len(pre)
                          /\ \E j \in EventsAt(log, f) : log[j].op = "alloc"
            /\ (/\ Kind(f[3]) \in {"bool", "string"} \cup IntKinds
                /\ IsZero(f[3], Before(<<f[1]>> \o f[2]))
                /\ Answer(heap, f).found
                /\ ~ReadOnly(heap, f)
                /\ BundledIn(f)) =>
                   /\ \E j \in 1..Len(Handles(log, f)) : Handles(log, f)[j].set
                   /\ \/ ValueAt(heap, f) = Given(heap, f)
                      \/ /\ ValueAt(heap, f) = TRUE
                         /\ \E j \in 1..Len(Handles(log, f)) :
                                Handles(log, f)[j].set /\ Handles(log, f)[j].who = "test.customDefaulter"

\* A call that returned no error on a record with an embedded record, an
\* embedded nil pointer to a record and an embedded record of an unexported
\* type: the pointer initialised, the fields of all three defaulted.
C16_Witness ==
    /\ calls > 0
    /\ err = NoErr
    /\ arg.type = PtrTo(<<"Family">>)
    /\ pre = <<[type |-> <<"Family">>, val |-> <<<<>>, <<FALSE>>, 0, <<0>>>>]>>
    /\ heap = <<[type |-> <<"Family">>, val |-> <<T_foo, <<TRUE>>, 2, <<-7>>>>],
               [type |-> <<"Embedded2">>, val |-> <<123>>]>>

\* Where the separator c stands in the text s, with the ends of s added.
Cuts(s, c) == {0, Len(s) + 1} \cup {i \in 1..Len(s) : s[i] = c}

\* The pieces of s between neighbouring cuts, by the cut they begin behind.
Piece(s, c, b) ==
    LET e == CHOOSE x \in Cuts(s, c) : x > b /\ \A y \in Cuts(s, c) : y > b => x <= y
    IN  SubSeq(s, b + 1, e - 1)

\* A piece without the spaces around it.
Trimmed(t) ==
    LET inked == {i \in 1..Len(t) : t[i] # " "}
    IN  IF inked = {} THEN <<>>
        ELSE SubSeq(t, CHOOSE i \in inked : \A j \in inked : i <= j,
                       CHOOSE i \in inked : \A j \in inked : i >= j)

\* The text t begins with the text q.
BeginsWith(t, q) == Len(q) <= Len(t) /\ SubSeq(t, 1, Len(q)) = q

Kth(S, k) == CHOOSE x \in S : Cardinality({y \in S : y < x}) = k - 1

\* The words of the text s: where a character that is no space follows a
\* space or begins s a word starts, where one precedes a space or ends s a
\* word ends, and the k-th word runs from the k-th start to the k-th end.
WordStarts(s) == {i \in 1..Len(s) : s[i] # " " /\ (i = 1 \/ s[i - 1] = " ")}
WordEnds(s) == {i \in 1..Len(s) : s[i] # " " /\ (i = Len(s) \/ s[i + 1] = " ")}
Words(s) ==
    [k \in 1..Cardinality(WordStarts(s)) |-> SubSeq(s, Kth(WordStarts(s), k), Kth(WordEnds(s), k))]

\* The number a row of digits stands for.
RECURSIVE Number(_)
Number(ds) ==
    IF ds = <<>> THEN 0 ELSE Number(SubSeq(ds, 1, Len(ds) - 1)) * 10 + DigitVal(ds[Len(ds)])

AllDigits(ds) == ds # <<>> /\ \A i \in 1..Len(ds) : ds[i] \in Digits

\* What the word w means as a value of the kind k, where it means one.
Meant(w, k) ==
    CASE k = "string" -> [ok |-> TRUE, val |-> w]
      [] k = "bool" ->
           [ok |-> ParseBool(w).ok,
            val |-> w \in {<<"1">>, <<"t">>, <<"T">>, T_true, <<"T", "R", "U", "E">>, <<"T", "r", "u", "e">>}]
      [] k \in IntKinds ->
           LET signed == w # <<>> /\ Head(w) \in {"+", "-"}
               ds == IF signed THEN Tail(w) ELSE w
           IN  [ok |-> AllDigits(ds),
                val |-> IF ~AllDigits(ds) THEN 0
                        ELSE IF Head(w) = "-" THEN 0 - Number(ds) ELSE Number(ds)]
      [] k \in UintKinds -> [ok |-> AllDigits(w), val |-> IF AllDigits(w) THEN Number(w) ELSE 0]
      [] OTHER -> [ok |-> FALSE, val |-> 0]

\* The slice field f was nil when the call began, the walk came to it, and
\* the registry holds the bundled defaulters.
NilSliceReached(f) ==
    /\ Kind(f[3]) = "slice"
    /\ ValueAt(pre, f) = NilSlice
    /\ Asked(log, f)
    /\ NumKinds(defaulters) > 1

NilMapReached(f) ==
    /\ Kind(f[3]) = "map"
    /\ ValueAt(pre, f) = NilMap
    /\ Asked(log, f)
    /\ NumKinds(defaulters) > 1

\* Where the first colon of the word w stands; 0 when it has none.
Colon(w) ==
    LET at == {i \in 1..Len(w) : w[i] = ":"}
    IN  IF at = {} THEN 0 ELSE CHOOSE i \in at : \A j \in at : i <= j

KeyOf(w) == SubSeq(w, 1, Colon(w) - 1)
ItemOf(w) == SubSeq(w, Colon(w) + 1, Len(w))

\* C19: a map field that is nil when the walk comes to it and whose tag
\* gives a default of words key:value becomes the map holding, for every
\* key written, the value of the last word with that key, and nothing
\* else, whatever the order of the words ("a:1 b:2" and "b:2 a:1" both give
\* {a:1, b:2}); words without a colon count for nothing. Where a key does
\* not convert the call fails with the invalid-key error and where a value
\* does not convert with the invalid-item error, the key being looked at
\* before the value and the words in the order written; the field is nil
\* after either.
C19_MapFromPairs ==
    calls > 0 =>
        \A f \in LeafFields(pre) :
            (NilMapReached(f) /\ Answer(pre, f).found) =>
                LET all == Words(Answer(pre, f).value)
                    P == {j \in 1..Len(all) : Colon(all[j]) > 0}
                    kk == Kind(<<f[3][2]>>)
                    ik == Kind(SubSeq(f[3], 3, Len(f[3])))
                    Bad(j) == ~Meant(KeyOf(all[j]), kk).ok \/ ~Meant(ItemOf(all[j]), ik).ok
                    bad == {j \in P : Bad(j)}
                    first == CHOOSE j \in bad : \A i \in bad : j <= i
                IN  IF bad = {}
                    THEN /\ ~ValueAt(heap, f).nil
                         /\ ValueAt(heap, f).pairs =
                                {<<Meant(KeyOf(all[j]), kk).val, Meant(ItemOf(all[j]), ik).val>> :
                                    j \in {i \in P : \A l \in P : l > i => KeyOf(all[l]) # KeyOf(all[i])}}
                         /\ ~EndsAt(log, f) \/ err = NoErr
                    ELSE /\ ValueAt(heap, f) = NilMap
                         /\ EndsAt(log, f)
                         /\ err.code = "failed to apply default value"
                         /\ err.errs[1].defaulter = "defaultz.MapDefaulter"
                         /\ err.errs[1].code =
                                IF ~Meant(KeyOf(all[first]), kk).ok THEN ErrInvalidDefaultValueKey
                                ELSE ErrInvalidDefaultValueItem

\* A record of nil maps after a call: "a:1 b:2" and "b:2 a:1" gave the same
\* map, and a map from numbers to texts was filled.
C19_Witness ==
    /\ calls = 1
    /\ err = NoErr
    /\ arg.type = PtrTo(<<"Maps">>)
    /\ IsZero(<<"Maps">>, pre[1].val)
    /\ heap[1].val[1] = [nil |-> FALSE, pairs |-> {<<<<"a">>, 1>>, <<<<"b">>, 2>>}]
    /\ heap[1].val[2] = heap[1].val[1]
    /\ heap[1].val[3] = [nil |-> FALSE, pairs |-> {<<3, <<"x">>>>, <<4, <<"y">>>>}]

\* C20: a []time.Duration field with the default "1s 2m" is set by
\* ApplyDefaults with the bundled defaulters to the two durations 1s and
\* 2m, and the call returns no error.
C20_AsStated ==
    (/\ calls > 0
     /\ arg.type = PtrTo(<<"Durs">>)
     /\ NumKinds(defaulters) > 1
     /\ pre[1].val[1] = NilSlice) =>
        /\ err = NoErr
        /\ ~heap[1].val[1].nil
        /\ Len(heap[1].val[1].elems) = 2
        /\ heap[1].val[1].elems[1] = ParseDuration(<<"1", "s">>).val
        /\ heap[1].val[1].elems[2] = ParseDuration(<<"2", "m">>).val

\* The field f holds records: an array, a slice or a map of them.
HoldsRecords(f) == Kind(f[3]) \in {"array", "slice", "map"} /\ Kind(Elem(f[3])) = "struct"

\* The place at lies below the field f.
Below(at, f) ==
    /\ Len(at) > Len(f[2]) + 1
    /\ SubSeq(at, 1, Len(f[2]) + 1) = <<f[1]>> \o f[2]

\* C21 as it stands: after a call without error the records of an array of
\* records have their empty fields set to their defaults, as the fields of
\* a record held by value have.
C21_AsStated ==
    (calls > 0 /\ err = NoErr /\ NumKinds(defaulters) > 1) =>
        \A f \in LeafFields(heap) :
            (Kind(f[3]) = "array" /\ Kind(Elem(f[3])) = "struct") =>
                \A i \in 1..Len(ValueAt(heap, f)) :
                    \A j \in 1..NumField(Elem(f[3])) :
                        LET g == TypeFields(Elem(f[3]))[j]
                        IN  (Kind(g.type) = "string" /\ ExtractDefault(extractor, g).found
                             /\ GetIn(pre[f[1]].val, f[2])[i][j] = <<>>)
                                => ValueAt(heap, f)[i][j] = ExtractDefault(extractor, g).value

\* C21: the walk goes into a field that is a record and sets the empty
\* fields of that record to their defaults; it goes into no array, slice
\* or map of records: such a field holds after the call what it held
\* before, the fields of its records with a default still empty, and
\* neither the extractor nor a defaulter was called for anything below it.
C21_RecordsDescendedCollectionsNot ==
    (calls > 0 /\ NumKinds(defaulters) > 1) =>
        \A f \in LeafFields(pre) :
            /\ HoldsRecords(f) =>
                   /\ ValueAt(heap, f) = ValueAt(pre, f)
                   /\ \A j \in 1..Len(log) : ~Below(log[j].at, f)
                   /\ Handles(log, f) = <<>>
            /\ (/\ err = NoErr
                /\ Len(f[2]) > 1
                /\ Kind(f[3]) = "string"
                /\ ValueAt(pre, f) = <<>>
                /\ Answer(pre, f).found) =>
                   ValueAt(heap, f) = Answer(pre, f).value

\* A call without error on a record with a record by value and an array of
\* two records: the record by value got its default, the array's records
\* did not.
C21_Witness ==
    /\ calls = 1
    /\ err = NoErr
    /\ arg.type = PtrTo(<<"Arrs">>)
    /\ IsZero(<<"Arrs">>, pre[1].val)
    /\ heap[1].val[1] = T_foo
    /\ heap[1].val[2] = <<<<<<>>>>, <<<<>>>>>>
    /\ heap[1].val[3] = <<T_bar>>
    /\ heap[1].val[4] = NilSlice
    /\ heap[1].val[5] = NilMap

\* C22: once the Register calls are over, of two ApplyDefaults calls that
\* run side by side on records of their own, in whatever order their steps
\* fall, each ends with the record and the error it would have ended with
\* alone; and no step of a call changes the registry's defaulters,
\* extractor or ignoreCannotSet.
C22_ConcurrentCallsAsAlone ==
    /\ [](\A p \in 1..Len(running) :
            running[p].pc = "done" =>
                running[p].st = ApplyDefaultsOn(Registry(defaulters, extractor, ignoreCannotSet),
                                                running[p].first, running[p].arg))
    /\ [][running' # running =>
            <<defaulters, extractor, ignoreCannotSet>>' = <<defaulters, extractor, ignoreCannotSet>>]_vars

\* One call has ended with its record defaulted while the other is in the
\* middle of its record, some fields set and some not yet.
C22_Witness ==
    /\ Len(running) = 2
    /\ running[1].pc = "done"
    /\ running[1].st.err = NoErr
    /\ running[1].st.heap # running[1].first
    /\ running[2].pc = "fields"
    /\ running[2].i > 1
    /\ running[2].i <= NumField(Elem(running[2].arg.type))
    /\ running[2].st.heap # running[2].first

\* The errors of fields an error stands for: those it wraps, or itself.
FieldErrors(e) == IF e.errs # <<>> THEN e.errs ELSE <<e>>

\* The error e tells of a field: it carries a path and a field.
TellsField(e) == e.path # <<>> /\ e.field # <<>>

\* The errors ApplyDefaults returns for the call as a whole.
WholeCallErrors == {ErrInvalidInput, ErrCyclic, ErrNoExtractor, ErrNoDefaulters}

C24_AsStated ==
    (calls > 0 /\ NumKinds(defaulters) > 1 /\ arg.type \in {PtrTo(<<"Ptrs">>), PtrTo(<<"PtrSeq">>),
                                                          PtrTo(<<"PtrMap">>)}) =>
        \A f \in LeafFields(pre) :
            (Kind(f[3]) = "ptr" /\ ValueAt(pre, f) = 0 /\ Asked(log, f) /\ Answer(pre, f).found) =>
                /\ ValueAt(heap, f) # 0
                /\ ~EndsAt(log, f) \/ err = NoErr
                /\ Kind(Elem(f[3])) = "slice" =>
                       heap[ValueAt(heap, f)].val.elems =
                           [j \in 1..Len(Words(Answer(pre, f).value)) |->
                               Meant(Words(Answer(pre, f).value)[j], Kind(Elem(Elem(f[3])))).val]
                /\ Kind(Elem(f[3])) \in {"bool", "string"} \cup IntKinds \cup UintKinds =>
                       \/ heap[ValueAt(heap, f)].val = Meant(Answer(pre, f).value, Kind(Elem(f[3]))).val
                       \/ heap[ValueAt(heap, f)].val = ParseDuration(Answer(pre, f).value).val

\* Where a call stands: the field each frame is at, outermost first.  A
\* frame that waits for a call it made is at the field it made it for.
Standing(w) ==
    [k \in 1..Len(w.frames) |-> IF k < Len(w.frames) THEN w.frames[k].i - 1 ELSE w.frames[k].i]

\* a comes before b: b goes on where a ends, or is further on at the first
\* place they differ.
Earlier(a, b) ==
    \E k \in 1..Len(b) :
        /\ k <= Len(a) + 1
        /\ \A j \in 1..(k - 1) : a[j] = b[j]
        /\ k = Len(a) + 1 \/ a[k] < b[k]

\* The step a call takes next, if it has not come to its end.
NextOf(r, w) == IF w.pc = "start" THEN WalkerBegan(r, w) ELSE WalkerStepped(r, w)

PassesCycleCheck(a) == ~InvalidInput(a) /\ ~detectPotentialCycles(Elem(a.type), {}).cycle

\* C25: a call of ApplyDefaults on a record whose type passes the cycle
\* check, with an extractor and defaulters that return, comes to its end,
\* and the end is a return, of nil (Done) or of an error (Failed): as long
\* as it is under way it has a next step no deeper than the record types
\* allow, and once over it has not panicked.
C25_AsStated ==
    PassesCycleCheck(running[1].arg) =>
        /\ running[1].pc # "done" =>
               Len(NextOf(Registry(defaulters, extractor, ignoreCannotSet), running[1]).frames)
                   <= MaxDepth
        /\ running[1].pc = "done" => running[1].st.err.code # "panic"

\* Taken field by field, the walk does what DoApplyDefaults does in one go.
WalkStepsAgree ==
    running[1].pc = "done" =>
        running[1].st = ApplyDefaultsOn(Registry(defaulters, extractor, ignoreCannotSet),
                                        running[1].first, running[1].arg)

\* The walk ends.  A call under way always has a next step within the depth
\* followed; no record type is under way twice, so the frames are no more
\* than the record types; every step moves the position on; and a
\* position is bounded by the number of fields of each record under way.
WalkNeverStuck ==
    running[1].pc # "done" =>
        Len(NextOf(Registry(defaulters, extractor, ignoreCannotSet), running[1]).frames) <= MaxDepth

WalkDepthBounded ==
    \A i, j \in 1..Len(running[1].frames) :
        /\ running[1].frames[i].i <= NumField(running[1].frames[i].v.type) + 1
        /\ i # j => running[1].frames[i].v.type # running[1].frames[j].v.type

WalkAdvances ==
    [][(running[1].pc = "walk" /\ running'[1].pc = "walk") =>
           Earlier(Standing(running[1]), Standing(running'[1]))]_vars

\* The type behind at most one pointer.
Behind(t) == IF Kind(t) = "ptr" THEN Elem(t) ELSE t

\* The record types one step from the record type t: the types of its
\* fields, each behind at most one pointer, that are records.
Followed(t) == {u \in {Behind(TypeFields(t)[i].type) : i \in 1..NumField(t)} : Kind(u) = "struct"}

\* The record types that can be come to from those of S, S included.
RECURSIVE ComeTo(_)
ComeTo(S) ==
    IF (UNION {Followed(t) : t \in S}) \subseteq S THEN S
    ELSE ComeTo(S \cup UNION {Followed(t) : t \in S})

\* Some record type that can be come to from the root is come to again from
\* itself.
ComesBack(root) ==
    /\ Kind(Behind(root)) = "struct"
    /\ \E t \in ComeTo({Behind(root)}) : t \in ComeTo(Followed(t))

\* C26: detectPotentialCycles, called with an empty map, answers true if and
\* only if some record type come to from the root along record fields, each
\* behind at most one pointer, is come to again while on the path; so two
\* fields of one acyclic record type are not flagged, nor is a type that
\* comes back to itself through a slice, a map, an interface or a pointer to
\* a pointer; and with any map, on a true as on a false answer, the map is
\* left as it was on entry.
C26_DetectorFindsCyclesOnPath ==
    calls = 1 =>
        /\ given[2] = {} => (answer.cycle <=> ComesBack(given[1]))
        /\ (given[2] = {} /\ Behind(given[1]) \in
                {<<"Parent">>, <<"diamond">>, <<"sliceSelf">>, <<"mapSelf">>, <<"arraySelf">>,
                 <<"structWithInterface">>, <<"nestedPointerCycle">>}) => ~answer.cycle
        /\ answer.seen = given[2]

C26_Witness ==
    /\ calls = 1
    /\ given = <<<<"leadsToCycle">>, {}>>
    /\ answer = [cycle |-> TRUE, seen |-> {}]

\* The fields of the heap h that are structs or pointers to structs: the
\* cell, the way down, the type.
RecordFields(h) ==
    UNION {IF Kind(h[a].type) = "struct"
           THEN {<<a, p[1], p[2]>> :
                    p \in {q \in FieldPaths(h[a].type) :
                              \/ Kind(q[2]) = "struct"
                              \/ Kind(q[2]) = "ptr" /\ Kind(Elem(q[2])) = "struct"}}
           ELSE {}
           : a \in 1..Len(h)}

\* The record the field f holds or points to, as a place: its cell and the
\* way down to it.
RecordAt(h, f) == IF Kind(f[3]) = "struct" THEN <<f[1], f[2]>> ELSE <<ValueAt(h, f), <<>>>>

\* C27: a field that is a struct or a pointer to a struct is gone into and
\* never defaulted: the extractor is not asked about it and no defaulter is
\* called for it, whatever default it carries; a defaulter registered for
\* the kind struct is called by no walk; and after a call that returned
\* nil every such field was gone into: a pointer is not nil, and the
\* fields below with a default hold a value.
C27_RecordsWalkedNeverDefaulted ==
    calls > 0 =>
        /\ \A f \in RecordFields(pre) \cup RecordFields(heap) : EventsAt(log, f) \subseteq
               {j \in 1..Len(log) : log[j].op = "alloc"}
        /\ \A j \in 1..Len(log) : log[j].who # structDefaulter.name
        /\ (err = NoErr /\ NumKinds(defaulters) > 1) =>
               \A f \in RecordFields(heap) :
                   /\ Kind(f[3]) = "ptr" => ValueAt(heap, f) # 0
                   /\ \A g \in LeafFields(heap) :
                          (/\ g[1] = RecordAt(heap, f)[1]
                           /\ Len(g[2]) = Len(RecordAt(heap, f)[2]) + 1
                           /\ SubSeq(g[2], 1, Len(g[2]) - 1) = RecordAt(heap, f)[2]
                           /\ Kind(g[3]) \in {"bool", "string"}
                           /\ Answer(heap, g).found) =>
                              ~IsZero(g[3], ValueAt(heap, g))

C27_Witness ==
    /\ calls > 0
    /\ arg.type = PtrTo(<<"Tagged">>)
    /\ defaulters["struct"] # <<>>
    /\ err = NoErr
    /\ Len(pre) = 1
    /\ Len(heap) = 2
    /\ heap[1].val[1] = <<T_bar>>
    /\ heap[2].val = <<T_bar>>

\* Where the field f stands in the order ord of the walk.
Place(ord, f) == IndexIn(ord, <<f[1]>> \o f[2])

\* Where the last thing the call did stands; 0 when it did nothing.
LastPlace(ord) == IF log = <<>> THEN 0 ELSE IndexIn(ord, log[Len(log)].at)

\* The fields that were nil pointers to records when the call began.
NilRecordPointers ==
    {f \in RecordFields(heap) : Kind(f[3]) = "ptr" /\ Before(<<f[1]>> \o f[2]) = 0}

\* The walk came past the field f: the call returned nil, or did something
\* at f or behind it.
CamePast(ord, f) == Place(ord, f) > 0 /\ (err = NoErr \/ Place(ord, f) <= LastPlace(ord))

\* The walk stopped in a panic at the field f: the first nil pointer to a
\* record behind the last thing the call did.
StoppedAt(ord, f) ==
    /\ err = Panic("reflect.Value.Set using value obtained using unexported field")
    /\ Place(ord, f) > LastPlace(ord)
    /\ \A g \in NilRecordPointers :
           (ValueAt(heap, g) = 0 /\ Place(ord, g) > LastPlace(ord)) => Place(ord, g) >= Place(ord, f)

\* The call left the field f pointing to a record it made, which is all
\* zero where no defaulter set anything in it.
Initialised(f) ==
    /\ ValueAt(heap, f) > Len(pre)
    /\ heap[ValueAt(heap, f)].type = Elem(f[3])
    /\ (\A j \in 1..Len(log) : log[j].at[1] = ValueAt(heap, f) => ~log[j].set) =>
           heap[ValueAt(heap, f)].val = Zero(Elem(f[3]))

\* C28: a field that is a nil pointer to a record is made to point to a new
\* record as soon as the walk comes to it, whether or not a field below
\* has a default, and it keeps pointing there when the walk of that record
\* fails: a call that applies no default, and a call that returns an
\* error, can still leave a nil pointer pointing to an all-zero record.
C28_AsStated ==
    (calls > 0 /\ Usable /\ IsRecordPointer(arg)) =>
        \A f \in NilRecordPointers :
            (\/ CamePast(Order(heap, 1, heap[1].type, <<>>, Len(heap)), f)
             \/ StoppedAt(Order(heap, 1, heap[1].type, <<>>, Len(heap)), f)) => Initialised(f)

\* The same of the fields the walk came past without a panic.
NilPointersInitialisedWherePassed ==
    (calls > 0 /\ Usable /\ IsRecordPointer(arg)) =>
        \A f \in NilRecordPointers :
            CamePast(Order(heap, 1, heap[1].type, <<>>, Len(heap)), f) => Initialised(f)

\* A call that applied no default and returned nil, and a call that
\* returned an error from the record it had just made.
InitialisedWithoutDefault ==
    /\ calls = 1
    /\ arg.type = PtrTo(<<"Bare">>)
    /\ err = NoErr
    /\ pre = <<Cell(<<"Bare">>, <<0>>)>>
    /\ heap = <<Cell(<<"Bare">>, <<2>>), Cell(<<"Plain">>, <<<<>>, 0>>)>>

InitialisedThenFailed ==
    /\ calls = 1
    /\ arg.type = PtrTo(<<"TxPtr">>)
    /\ err.code = ErrNotSupported
    /\ pre = <<Cell(<<"TxPtr">>, <<0, FALSE>>)>>
    /\ heap = <<Cell(<<"TxPtr">>, <<2, FALSE>>), Cell(<<"Bad">>, <<T_foo, <<0, 0>>, <<>>>>)>>

\* C29: on a registry without an extractor, and on one with an extractor
\* and no defaulter for any kind, a call on a non-nil pointer to a record
\* of a type that does not refer to itself returns "default extractor is
\* not set", respectively "no defaulters are registered", and has looked at
\* no field, written none and initialised no pointer; the check of the
\* argument and the cycle check come first, so that on these registries too
\* an argument that is no such pointer gets the invalid-input error and a
\* type that refers to itself the cyclic-type error.
C29_UnusableRegistryFailsFirst ==
    (calls > 0 /\ ~Usable) =>
        /\ heap = pre
        /\ log = <<>>
        /\ ~IsRecordPointer(arg) => err = ErrInvalidInput
        /\ (IsRecordPointer(arg) /\ HasSelfReference(Elem(arg.type))) => err = ErrCyclic
        /\ (IsRecordPointer(arg) /\ ~HasSelfReference(Elem(arg.type))) =>
               err = IF extractor.kind = "nil" THEN PlainErr("default extractor is not set")
                     ELSE PlainErr("no defaulters are registered")

C29_Witness ==
    /\ calls > 0
    /\ extractor.kind # "nil"
    /\ NumKinds(defaulters) = 0
    /\ arg.type = PtrTo(<<"Parent">>)
    /\ pre[1].val = Zero(<<"Parent">>)
    /\ heap = pre
    /\ err = PlainErr("no defaulters are registered")

\* The integer kinds narrower than 64 bits, and their widths.
NarrowKinds == {"int8", "int16", "int32", "uint8", "uint16", "uint32"}

\* The greatest number of the kind k written out, and for neg the size of
\* its least number.
Greatest(k, neg) ==
    CASE k = "int8" -> IF neg THEN <<"1", "2", "8">> ELSE <<"1", "2", "7">>
      [] k = "int16" -> IF neg THEN <<"3", "2", "7", "6", "8">> ELSE <<"3", "2", "7", "6", "7">>
      [] k = "int32" -> IF neg THEN <<"2", "1", "4", "7", "4", "8", "3", "6", "4", "8">> ELSE <<"2", "1", "4", "7", "4", "8", "3", "6", "4", "7">>
      [] k = "uint8" -> IF neg THEN <<"0">> ELSE <<"2", "5", "5">>
      [] k = "uint16" -> IF neg THEN <<"0">> ELSE <<"6", "5", "5", "3", "5">>
      [] k = "uint32" -> IF neg THEN <<"0">> ELSE <<"4", "2", "9", "4", "9", "6", "7", "2", "9", "5">>

\* The row of digits ds, written without leading zeros, stands for more
\* than the row lim does.
Exceeds(ds, lim) ==
    \/ Len(ds) > Len(lim)
    \/ /\ Len(ds) = Len(lim)
       /\ \E i \in 1..Len(ds) :
              /\ DigitVal(ds[i]) > DigitVal(lim[i])
              /\ \A j \in 1..(i - 1) : ds[j] = lim[j]

\* The word w is a number written in digits, with a sign at most where the
\* kind has one.
IsNumber(w, k) ==
    IF k \in UintKinds THEN AllDigits(w)
    ELSE w # <<>> /\ AllDigits(IF Head(w) \in {"+", "-"} THEN Tail(w) ELSE w)

\* The number w lies in the range of the kind k.
Fits(w, k) ==
    /\ IsNumber(w, k)
    /\ ~Exceeds(IF Head(w) \in {"+", "-"} THEN Tail(w) ELSE w, Greatest(k, Head(w) = "-"))

\* The number n in the low bits of the kind k, for n within 31 bits.
Reduced(n, k) ==
    IF BitSize(k) = 32 THEN n
    ELSE IF k \in UintKinds THEN n % (2 ^ BitSize(k))
    ELSE IF n % (2 ^ BitSize(k)) >= 2 ^ (BitSize(k) - 1) THEN (n % (2 ^ BitSize(k))) - 2 ^ BitSize(k)
    ELSE n % (2 ^ BitSize(k))

\* The numbers of ten digits in the defaults, modulo 2^32 by hand:
\* 2147483648 = 2^31 is the least int32, 4294967297 = 2^32 + 1,
\* -2147483649 = -2^31 - 1 is the greatest int32, 4294967296 = 2^32.
ReducedByHand(w) ==
    CASE w = <<"2", "1", "4", "7", "4", "8", "3", "6", "4", "8">> -> 0 - 2147483647 - 1
      [] w = <<"4", "2", "9", "4", "9", "6", "7", "2", "9", "7">> -> 1
      [] w = <<"-", "2", "1", "4", "7", "4", "8", "3", "6", "4", "9">> -> 2147483647
      [] w = <<"2", "1", "4", "7", "4", "8", "3", "6", "4", "7">> -> 2147483647
      [] w = <<"-", "2", "1", "4", "7", "4", "8", "3", "6", "4", "8">> -> 0 - 2147483647 - 1
      [] w = <<"4", "2", "9", "4", "9", "6", "7", "2", "9", "6">> -> 0

\* What the number w is as an item of the kind k: itself modulo 2^width.
AsItem(w, k) == IF Len(w) >= 10 THEN ReducedByHand(w) ELSE Reduced(Meant(w, k).val, k)

\* The field f was zero when the call began, the walk asked for its
\* default and found one, and the registry holds the bundled defaulters.
DefaultedByBundled(f) ==
    /\ IsZero(f[3], ValueAt(pre, f))
    /\ Asked(log, f)
    /\ Answer(pre, f).found
    /\ NumKinds(defaulters) > 1

\* C30: a field of an 8-, 16- or 32-bit integer kind, signed or unsigned,
\* whose default is a number out of the range of the kind stays zero and
\* fails the call with the invalid-default-value error, and one whose
\* default is in the range holds it; an item of a slice, and a key and a
\* value of a map, of such a kind take any number that fits 64 bits
\* without an error and hold it modulo 2^width.
C30_RangeCheckedFieldsWrappedItems ==
    calls > 0 =>
        \A f \in LeafFields(pre) :
            DefaultedByBundled(f) =>
                /\ (Kind(f[3]) \in NarrowKinds /\ IsNumber(Answer(pre, f).value, Kind(f[3]))) =>
                       IF Fits(Answer(pre, f).value, Kind(f[3]))
                       THEN /\ ValueAt(heap, f) = AsItem(Answer(pre, f).value, Kind(f[3]))
                            /\ ~EndsAt(log, f) \/ err = NoErr
                       ELSE /\ ValueAt(heap, f) = 0
                            /\ EndsAt(log, f)
                            /\ err.code = "failed to apply default value"
                            /\ err.errs[1].code = ErrInvalidDefaultValue
                            /\ err.errs[1].msg = "value out of range"
                /\ (Kind(f[3]) = "slice" /\ Kind(Elem(f[3])) \in NarrowKinds) =>
                       /\ ValueAt(heap, f) =
                              [nil |-> FALSE,
                               elems |-> [j \in 1..Len(Words(Answer(pre, f).value)) |->
                                             AsItem(Words(Answer(pre, f).value)[j], Kind(Elem(f[3])))]]
                       /\ ~EndsAt(log, f) \/ err = NoErr
                /\ (Kind(f[3]) = "map" /\ Kind(Key(f[3])) \in NarrowKinds) =>
                       /\ ValueAt(heap, f) =
                              [nil |-> FALSE,
                               pairs |-> {<<AsItem(KeyOf(w), Kind(Key(f[3]))),
                                            AsItem(ItemOf(w), Kind(Elem(f[3])))>> :
                                             w \in {Words(Answer(pre, f).value)[j] :
                                                       j \in 1..Len(Words(Answer(pre, f).value))}}]
                       /\ ~EndsAt(log, f) \/ err = NoErr

\* Items beyond int8 and uint8 kept modulo 2^8, and then the field of kind
\* int8 refused for the number 128.
C30_Witness ==
    /\ calls = 1
    /\ arg.type = PtrTo(<<"Narrow8">>)
    /\ IsZero(<<"Narrow8">>, pre[1].val)
    /\ heap[1].val[1] = [nil |-> FALSE, elems |-> <<44, 127, 127, -128, -56>>]
    /\ heap[1].val[2] = [nil |-> FALSE, elems |-> <<0, 255, 255>>]
    /\ heap[1].val[3] = [nil |-> FALSE, pairs |-> {<<-56, 44>>, <<127, 7>>}]
    /\ heap[1].val[4] = 0
    /\ err.errs[1].code = ErrInvalidDefaultValue
====
